---- MODULE Spec2Model ----
(***************************************************************************)
(* Waitlist plugin for Better Auth: the waitlist table, the public and     *)
(* admin endpoints, the request hook (Layer A) and the user-creation       *)
(* database hooks (Layer B and the completion step).                       *)
(*                                                                         *)
(* Strings that the code transforms (emails, paths) are sequences of       *)
(* one-character strings (emails) or of path segments (paths).  Dates are  *)
(* integers (seconds); null is Null for dates, codes and positions, and    *)
(* the empty sequence for an absent (or empty, hence falsy) email.         *)
(***************************************************************************)
EXTENDS Integers, Sequences, FiniteSets, TLC

VARIABLES
    opts,       \* the options bag captured by the plugin's closures
    waitlist,   \* the "waitlist" table: a sequence of entries, id = index
    users,      \* the host's user table: the e-mails of the persisted users
    now,        \* the clock (Date.now(), in seconds)
    issued,     \* how many invite codes crypto.randomUUID() has produced
    usedCodes,  \* history: codes presented by registrations that completed
    last,       \* the last operation: its name, argument, result, callbacks
    inflight    \* the requests whose handler is suspended at an await

vars == <<opts, waitlist, users, now, issued, usedCodes, last, inflight>>

\* ------------------------------------------------------------------ bounds
MaxTime == 1
MaxCodes == 2
MaxInflight == 2

\* --------------------------------------------------------------- constants
Null == -1
DefaultInviteCodeExpiration == 172800

NoEmail == <<>>
\* referredBy: null and metadata: null, the stored values of absent fields.
NoReferrer == <<>>
NoMetadata == <<>>
RawEmails == {<<"a">>, <<"A">>, <<"b">>}
BogusCode == 0

\* String.prototype.toLowerCase, character by character.
LowerChar(c) ==
    CASE c = "A" -> "a"
      [] c = "B" -> "b"
      [] OTHER -> c

toLowerCase(s) == [i \in DOMAIN s |-> LowerChar(s[i])]


\* ------------------------------------------------------------ the options
\* autoApprove: "off" (absent or false), "always" (true), "predicate" (a
\* function of the normalized email).  maxWaitlistSize: Null when absent.
\* onJoinWaitlist, sendInviteEmail, onApproved, onRejected: the callback the
\* application supplies either returns ("ok") or throws ("throws").
AdminRoles == {"admin"}

\* The predicate the application supplies as autoApprove: here the e-mail
\* "a" is the one it approves; it is applied to the normalized e-mail.
autoApprovePredicate(email) == email = <<"a">>

\* The defaults of waitlist(options), before ...options overrides them.
DefaultOptions ==
    [enabled |-> TRUE, requireInviteCode |-> FALSE,
     inviteCodeExpiration |-> DefaultInviteCodeExpiration,
     skipAnonymous |-> FALSE, maxWaitlistSize |-> Null, autoApprove |-> "off",
     onJoinWaitlist |-> "ok", sendInviteEmail |-> "ok", onApproved |-> "ok",
     onRejected |-> "ok"]

\* Configurations explored: the gate switches, and invite codes required
\* with a short expiration (in seconds).
GateConfigs ==
    { DefaultOptions, [DefaultOptions EXCEPT !.enabled = FALSE],
      [DefaultOptions EXCEPT !.skipAnonymous = TRUE] }

InviteConfigs ==
    { [DefaultOptions EXCEPT !.requireInviteCode = TRUE,
                             !.inviteCodeExpiration = ttl] : ttl \in {0, 1} }

\* ------------------------------------------------------- the record store
Min(S) == CHOOSE x \in S : \A y \in S : x <= y

\* A where clause is a record field |-> value (<<>> for none); a record
\* matches when it has each of these values.
matches(r, where) == \A f \in DOMAIN where : r[f] = where[f]

\* adapter.findOne: the id (index) of the first matching record, 0 for null.
findOne(wl, where) ==
    LET S == {i \in DOMAIN wl : matches(wl[i], where)}
    IN  IF S = {} THEN 0 ELSE Min(S)

\* adapter.count({model}) and adapter.count({model, where}).
count(wl, where) == Cardinality({i \in DOMAIN wl : matches(wl[i], where)})

\* A store numbering the record itself, by the records it holds.
createNumbered(wl, data) == Append(wl, [data EXCEPT !.position = Len(wl) + 1])

\* adapter.create: the store assigns the id (the next index).
create(wl, data) == Append(wl, data)

\* adapter.update: the first matching record gets the patch's fields.
update(wl, where, patch) ==
    LET i == findOne(wl, where)
    IN  IF i = 0 THEN wl
        ELSE [wl EXCEPT ![i] =
                 [f \in DOMAIN wl[i] |->
                     IF f \in DOMAIN patch THEN patch[f] ELSE wl[i][f]]]

\* findOne({where: [{field: "email", value}]})
findByEmail(wl, email) == findOne(wl, [email |-> email])

\* The lookup by invite code without the status condition.
findByCodeAnyStatus(wl, code) == findOne(wl, [inviteCode |-> code])

\* findOne({where: [{field: "inviteCode", value}, {field: "status",
\* value: "approved"}]})
findApprovedByCode(wl, code) ==
    findOne(wl, [inviteCode |-> code, status |-> "approved"])

\* findOne({where: [{field: "email", value}, {field: "status",
\* value: "approved"}]})
findApprovedByEmail(wl, email) ==
    findOne(wl, [email |-> email, status |-> "approved"])

\* A generator that repeats the value it returned last.
repeatedUUID(iss) == IF iss = 0 THEN 1 ELSE iss

\* crypto.randomUUID(): a value no earlier call returned.
randomUUID(iss) == iss + 1

\* The expiry test counting the deadline itself as expired.
expiredAtDeadline(entry, t) ==
    entry.inviteExpiresAt # Null /\ entry.inviteExpiresAt <= t

\* new Date(entry.inviteExpiresAt) < new Date(): a null expiry never expires.
expired(entry, t) == entry.inviteExpiresAt # Null /\ entry.inviteExpiresAt < t

\* options.inviteCodeExpiration ?? 172800
expSeconds == IF opts.inviteCodeExpiration = Null THEN DefaultInviteCodeExpiration
              ELSE opts.inviteCodeExpiration


\* ------------------------------------------------------ public endpoints
\* What a handler yields: "OK" or the error it throws, the store and the
\* code counter after it, the store writes and callbacks it performed, in
\* order, and the body of its response (Null when it throws).
Outcome(res, wl, iss, calls) ==
    [res |-> res, wl |-> wl, iss |-> iss, calls |-> calls, body |-> Null]

\* ctx.json(body)
Reply(out, body) == [out EXCEPT !.body = body]

\* {...entry, ...patch}
merge(entry, patch) ==
    [f \in DOMAIN entry |-> IF f \in DOMAIN patch THEN patch[f] ELSE entry[f]]

\* await options.sendInviteEmail(...) throws: the error leaves the handler.
sendInviteEmailThrows == opts.sendInviteEmail = "throws"

\* ... and so for await options.onJoinWaitlist(entry), onApproved, onRejected.
onJoinWaitlistThrows == opts.onJoinWaitlist = "throws"
onApprovedThrows == opts.onApproved = "throws"
onRejectedThrows == opts.onRejected = "throws"

\* joinWaitlist looking the e-mail up as the body spells it.
joinWaitlistRawLookup(wl, iss, t, email) ==
    LET normalizedEmail == toLowerCase(email)
        existing == findByEmail(wl, email)
        totalCount == count(wl, <<>>)
        entry ==
            [email |-> normalizedEmail, status |-> "pending",
             inviteCode |-> Null, inviteExpiresAt |-> Null,
             position |-> totalCount + 1, approvedAt |-> Null,
             rejectedAt |-> Null, registeredAt |-> Null,
             referredBy |-> NoReferrer, metadata |-> NoMetadata,
             createdAt |-> t]
    IN  IF existing # 0
        THEN Outcome("EMAIL_ALREADY_IN_WAITLIST", wl, iss, <<>>)
        ELSE Outcome("OK", create(wl, entry), iss, <<"onJoinWaitlist">>)

\* joinWaitlist taking the position from the number of pending entries.
joinWaitlistPendingCount(wl, iss, t, email) ==
    LET normalizedEmail == toLowerCase(email)
        existing == findByEmail(wl, normalizedEmail)
        full == /\ opts.maxWaitlistSize # Null
                /\ opts.maxWaitlistSize # 0
                /\ count(wl, <<>>) >= opts.maxWaitlistSize
        totalCount == count(wl, [status |-> "pending"])
        shouldApprove ==
            CASE opts.autoApprove = "off" -> FALSE
              [] opts.autoApprove = "predicate" -> autoApprovePredicate(normalizedEmail)
              [] OTHER -> TRUE
        inviteCode == IF shouldApprove THEN randomUUID(iss) ELSE Null
        entry ==
            [email |-> normalizedEmail,
             status |-> IF shouldApprove THEN "approved" ELSE "pending",
             inviteCode |-> inviteCode,
             inviteExpiresAt |-> IF shouldApprove THEN t + expSeconds ELSE Null,
             position |-> totalCount + 1,
             approvedAt |-> IF shouldApprove THEN t ELSE Null,
             rejectedAt |-> Null,
             registeredAt |-> Null,
             referredBy |-> NoReferrer, metadata |-> NoMetadata,
             createdAt |-> t]
    IN  IF existing # 0
        THEN Outcome("EMAIL_ALREADY_IN_WAITLIST", wl, iss, <<>>)
        ELSE IF full
        THEN Outcome("WAITLIST_FULL", wl, iss, <<>>)
        ELSE IF onJoinWaitlistThrows
        THEN Outcome("CALLBACK_ERROR", create(wl, entry),
                     IF shouldApprove THEN inviteCode ELSE iss,
                     <<"adapter.create", "onJoinWaitlist">>)
        ELSE IF shouldApprove /\ sendInviteEmailThrows
        THEN Outcome("CALLBACK_ERROR", create(wl, entry), inviteCode,
                     <<"adapter.create", "onJoinWaitlist", "sendInviteEmail">>)
        ELSE IF shouldApprove /\ onApprovedThrows
        THEN Outcome("CALLBACK_ERROR", create(wl, entry), inviteCode,
                     <<"adapter.create", "onJoinWaitlist", "sendInviteEmail",
                       "onApproved">>)
        ELSE Reply(Outcome("OK", create(wl, entry),
                           IF shouldApprove THEN inviteCode ELSE iss,
                           <<"adapter.create", "onJoinWaitlist">>
                           \o (IF shouldApprove
                               THEN <<"sendInviteEmail", "onApproved">>
                               ELSE <<>>)),
                   [email |-> entry.email, status |-> entry.status,
                    position |-> entry.position])

\* joinWaitlist holding only the pending entries against the limit.
joinWaitlistPendingLimit(wl, iss, t, email) ==
    LET normalizedEmail == toLowerCase(email)
        existing == findByEmail(wl, normalizedEmail)
        full == /\ opts.maxWaitlistSize # Null
                /\ opts.maxWaitlistSize # 0
                /\ count(wl, [status |-> "pending"]) >= opts.maxWaitlistSize
        totalCount == count(wl, <<>>)
        shouldApprove ==
            CASE opts.autoApprove = "off" -> FALSE
              [] opts.autoApprove = "predicate" -> autoApprovePredicate(normalizedEmail)
              [] OTHER -> TRUE
        inviteCode == IF shouldApprove THEN randomUUID(iss) ELSE Null
        entry ==
            [email |-> normalizedEmail,
             status |-> IF shouldApprove THEN "approved" ELSE "pending",
             inviteCode |-> inviteCode,
             inviteExpiresAt |-> IF shouldApprove THEN t + expSeconds ELSE Null,
             position |-> totalCount + 1,
             approvedAt |-> IF shouldApprove THEN t ELSE Null,
             rejectedAt |-> Null,
             registeredAt |-> Null,
             referredBy |-> NoReferrer, metadata |-> NoMetadata,
             createdAt |-> t]
    IN  IF existing # 0
        THEN Outcome("EMAIL_ALREADY_IN_WAITLIST", wl, iss, <<>>)
        ELSE IF full
        THEN Outcome("WAITLIST_FULL", wl, iss, <<>>)
        ELSE IF onJoinWaitlistThrows
        THEN Outcome("CALLBACK_ERROR", create(wl, entry),
                     IF shouldApprove THEN inviteCode ELSE iss,
                     <<"adapter.create", "onJoinWaitlist">>)
        ELSE IF shouldApprove /\ sendInviteEmailThrows
        THEN Outcome("CALLBACK_ERROR", create(wl, entry), inviteCode,
                     <<"adapter.create", "onJoinWaitlist", "sendInviteEmail">>)
        ELSE IF shouldApprove /\ onApprovedThrows
        THEN Outcome("CALLBACK_ERROR", create(wl, entry), inviteCode,
                     <<"adapter.create", "onJoinWaitlist", "sendInviteEmail",
                       "onApproved">>)
        ELSE Reply(Outcome("OK", create(wl, entry),
                           IF shouldApprove THEN inviteCode ELSE iss,
                           <<"adapter.create", "onJoinWaitlist">>
                           \o (IF shouldApprove
                               THEN <<"sendInviteEmail", "onApproved">>
                               ELSE <<>>)),
                   [email |-> entry.email, status |-> entry.status,
                    position |-> entry.position])

\* joinWaitlist handing autoApprove the e-mail as the body spells it.
joinWaitlistRawPredicate(wl, iss, t, email) ==
    LET normalizedEmail == toLowerCase(email)
        existing == findByEmail(wl, normalizedEmail)
        full == /\ opts.maxWaitlistSize # Null
                /\ opts.maxWaitlistSize # 0
                /\ count(wl, <<>>) >= opts.maxWaitlistSize
        totalCount == count(wl, <<>>)
        shouldApprove ==
            CASE opts.autoApprove = "off" -> FALSE
              [] opts.autoApprove = "predicate" -> autoApprovePredicate(email)
              [] OTHER -> TRUE
        inviteCode == IF shouldApprove THEN randomUUID(iss) ELSE Null
        entry ==
            [email |-> normalizedEmail,
             status |-> IF shouldApprove THEN "approved" ELSE "pending",
             inviteCode |-> inviteCode,
             inviteExpiresAt |-> IF shouldApprove THEN t + expSeconds ELSE Null,
             position |-> totalCount + 1,
             approvedAt |-> IF shouldApprove THEN t ELSE Null,
             rejectedAt |-> Null,
             registeredAt |-> Null,
             referredBy |-> NoReferrer, metadata |-> NoMetadata,
             createdAt |-> t]
    IN  IF existing # 0
        THEN Outcome("EMAIL_ALREADY_IN_WAITLIST", wl, iss, <<>>)
        ELSE IF full
        THEN Outcome("WAITLIST_FULL", wl, iss, <<>>)
        ELSE IF onJoinWaitlistThrows
        THEN Outcome("CALLBACK_ERROR", create(wl, entry),
                     IF shouldApprove THEN inviteCode ELSE iss,
                     <<"adapter.create", "onJoinWaitlist">>)
        ELSE IF shouldApprove /\ sendInviteEmailThrows
        THEN Outcome("CALLBACK_ERROR", create(wl, entry), inviteCode,
                     <<"adapter.create", "onJoinWaitlist", "sendInviteEmail">>)
        ELSE IF shouldApprove /\ onApprovedThrows
        THEN Outcome("CALLBACK_ERROR", create(wl, entry), inviteCode,
                     <<"adapter.create", "onJoinWaitlist", "sendInviteEmail",
                       "onApproved">>)
        ELSE Reply(Outcome("OK", create(wl, entry),
                           IF shouldApprove THEN inviteCode ELSE iss,
                           <<"adapter.create", "onJoinWaitlist">>
                           \o (IF shouldApprove
                               THEN <<"sendInviteEmail", "onApproved">>
                               ELSE <<>>)),
                   [email |-> entry.email, status |-> entry.status,
                    position |-> entry.position])

\* joinWaitlist invoking onJoinWaitlist before it creates the entry.
joinWaitlistNotifyFirst(wl, iss, t, email) ==
    LET normalizedEmail == toLowerCase(email)
        existing == findByEmail(wl, normalizedEmail)
        full == /\ opts.maxWaitlistSize # Null
                /\ opts.maxWaitlistSize # 0
                /\ count(wl, <<>>) >= opts.maxWaitlistSize
        totalCount == count(wl, <<>>)
        shouldApprove ==
            CASE opts.autoApprove = "off" -> FALSE
              [] opts.autoApprove = "predicate" -> autoApprovePredicate(normalizedEmail)
              [] OTHER -> TRUE
        inviteCode == IF shouldApprove THEN randomUUID(iss) ELSE Null
        entry ==
            [email |-> normalizedEmail,
             status |-> IF shouldApprove THEN "approved" ELSE "pending",
             inviteCode |-> inviteCode,
             inviteExpiresAt |-> IF shouldApprove THEN t + expSeconds ELSE Null,
             position |-> totalCount + 1,
             approvedAt |-> IF shouldApprove THEN t ELSE Null,
             rejectedAt |-> Null,
             registeredAt |-> Null,
             referredBy |-> NoReferrer, metadata |-> NoMetadata,
             createdAt |-> t]
    IN  IF existing # 0
        THEN Outcome("EMAIL_ALREADY_IN_WAITLIST", wl, iss, <<>>)
        ELSE IF full
        THEN Outcome("WAITLIST_FULL", wl, iss, <<>>)
        ELSE IF onJoinWaitlistThrows
        THEN Outcome("CALLBACK_ERROR", create(wl, entry),
                     IF shouldApprove THEN inviteCode ELSE iss,
                     <<"adapter.create", "onJoinWaitlist">>)
        ELSE IF shouldApprove /\ sendInviteEmailThrows
        THEN Outcome("CALLBACK_ERROR", create(wl, entry), inviteCode,
                     <<"adapter.create", "onJoinWaitlist", "sendInviteEmail">>)
        ELSE IF shouldApprove /\ onApprovedThrows
        THEN Outcome("CALLBACK_ERROR", create(wl, entry), inviteCode,
                     <<"adapter.create", "onJoinWaitlist", "sendInviteEmail",
                       "onApproved">>)
        ELSE Reply(Outcome("OK", create(wl, entry),
                           IF shouldApprove THEN inviteCode ELSE iss,
                           <<"onJoinWaitlist", "adapter.create">>
                           \o (IF shouldApprove
                               THEN <<"sendInviteEmail", "onApproved">>
                               ELSE <<>>)),
                   [email |-> entry.email, status |-> entry.status,
                    position |-> entry.position])

\* joinWaitlist holding the count against maxWaitlistSize before it looks
\* for an entry of the e-mail.
joinWaitlistSizeFirst(wl, iss, t, email) ==
    LET normalizedEmail == toLowerCase(email)
        existing == findByEmail(wl, normalizedEmail)
        full == /\ opts.maxWaitlistSize # Null
                /\ opts.maxWaitlistSize # 0
                /\ count(wl, <<>>) >= opts.maxWaitlistSize
        totalCount == count(wl, <<>>)
        shouldApprove ==
            CASE opts.autoApprove = "off" -> FALSE
              [] opts.autoApprove = "predicate" -> autoApprovePredicate(normalizedEmail)
              [] OTHER -> TRUE
        inviteCode == IF shouldApprove THEN randomUUID(iss) ELSE Null
        entry ==
            [email |-> normalizedEmail,
             status |-> IF shouldApprove THEN "approved" ELSE "pending",
             inviteCode |-> inviteCode,
             inviteExpiresAt |-> IF shouldApprove THEN t + expSeconds ELSE Null,
             position |-> totalCount + 1,
             approvedAt |-> IF shouldApprove THEN t ELSE Null,
             rejectedAt |-> Null,
             registeredAt |-> Null,
             referredBy |-> NoReferrer, metadata |-> NoMetadata,
             createdAt |-> t]
    IN  IF full
        THEN Outcome("WAITLIST_FULL", wl, iss, <<>>)
        ELSE IF existing # 0
        THEN Outcome("EMAIL_ALREADY_IN_WAITLIST", wl, iss, <<>>)
        ELSE IF onJoinWaitlistThrows
        THEN Outcome("CALLBACK_ERROR", create(wl, entry),
                     IF shouldApprove THEN inviteCode ELSE iss,
                     <<"adapter.create", "onJoinWaitlist">>)
        ELSE IF shouldApprove /\ sendInviteEmailThrows
        THEN Outcome("CALLBACK_ERROR", create(wl, entry), inviteCode,
                     <<"adapter.create", "onJoinWaitlist", "sendInviteEmail">>)
        ELSE IF shouldApprove /\ onApprovedThrows
        THEN Outcome("CALLBACK_ERROR", create(wl, entry), inviteCode,
                     <<"adapter.create", "onJoinWaitlist", "sendInviteEmail",
                       "onApproved">>)
        ELSE Reply(Outcome("OK", create(wl, entry),
                           IF shouldApprove THEN inviteCode ELSE iss,
                           <<"adapter.create", "onJoinWaitlist">>
                           \o (IF shouldApprove
                               THEN <<"sendInviteEmail", "onApproved">>
                               ELSE <<>>)),
                   [email |-> entry.email, status |-> entry.status,
                    position |-> entry.position])

\* POST /waitlist/join
joinWaitlist(wl, iss, t, email) ==
    LET normalizedEmail == toLowerCase(email)
        existing == findByEmail(wl, normalizedEmail)
        full == /\ opts.maxWaitlistSize # Null
                /\ opts.maxWaitlistSize # 0
                /\ count(wl, <<>>) >= opts.maxWaitlistSize
        totalCount == count(wl, <<>>)
        shouldApprove ==
            CASE opts.autoApprove = "off" -> FALSE
              [] opts.autoApprove = "predicate" -> autoApprovePredicate(normalizedEmail)
              [] OTHER -> TRUE
        inviteCode == IF shouldApprove THEN randomUUID(iss) ELSE Null
        entry ==
            [email |-> normalizedEmail,
             status |-> IF shouldApprove THEN "approved" ELSE "pending",
             inviteCode |-> inviteCode,
             inviteExpiresAt |-> IF shouldApprove THEN t + expSeconds ELSE Null,
             position |-> totalCount + 1,
             approvedAt |-> IF shouldApprove THEN t ELSE Null,
             rejectedAt |-> Null,
             registeredAt |-> Null,
             referredBy |-> NoReferrer, metadata |-> NoMetadata,
             createdAt |-> t]
    IN  IF existing # 0
        THEN Outcome("EMAIL_ALREADY_IN_WAITLIST", wl, iss, <<>>)
        ELSE IF full
        THEN Outcome("WAITLIST_FULL", wl, iss, <<>>)
        ELSE IF onJoinWaitlistThrows
        THEN Outcome("CALLBACK_ERROR", create(wl, entry),
                     IF shouldApprove THEN inviteCode ELSE iss,
                     <<"adapter.create", "onJoinWaitlist">>)
        ELSE IF shouldApprove /\ sendInviteEmailThrows
        THEN Outcome("CALLBACK_ERROR", create(wl, entry), inviteCode,
                     <<"adapter.create", "onJoinWaitlist", "sendInviteEmail">>)
        ELSE IF shouldApprove /\ onApprovedThrows
        THEN Outcome("CALLBACK_ERROR", create(wl, entry), inviteCode,
                     <<"adapter.create", "onJoinWaitlist", "sendInviteEmail",
                       "onApproved">>)
        ELSE Reply(Outcome("OK", create(wl, entry),
                           IF shouldApprove THEN inviteCode ELSE iss,
                           <<"adapter.create", "onJoinWaitlist">>
                           \o (IF shouldApprove
                               THEN <<"sendInviteEmail", "onApproved">>
                               ELSE <<>>)),
                   [email |-> entry.email, status |-> entry.status,
                    position |-> entry.position])

\* JSON.stringify of a flat object, as the sequence of the text's tokens; the
\* object is the sequence of its <<key, value>> members.
RECURSIVE JSONmembers(_)
JSONmembers(obj) ==
    IF obj = <<>> THEN <<>>
    ELSE <<"\"", Head(obj)[1], "\"", ":", "\"", Head(obj)[2], "\"">>
         \o (IF Tail(obj) = <<>> THEN <<>> ELSE <<",">> \o JSONmembers(Tail(obj)))

JSONstringify(obj) == <<"{">> \o JSONmembers(obj) \o <<"}">>

\* POST /waitlist/join with referredBy and metadata in the body: the record
\* created carries referredBy ?? null and metadata ? JSON.stringify(metadata)
\* : null; joinWaitlist above is the handler on a body with the e-mail alone.
joinWaitlistBody(wl, iss, t, body) ==
    LET out == joinWaitlist(wl, iss, t, body.email)
        id == Len(out.wl)
    IN  IF Len(out.wl) = Len(wl) THEN out
        ELSE [out EXCEPT
                !.wl[id].referredBy = body.referredBy,
                !.wl[id].metadata = IF body.metadata.given
                                    THEN JSONstringify(body.metadata.value)
                                    ELSE NoMetadata]

\* GET /waitlist/status: {status, position} or WAITLIST_ENTRY_NOT_FOUND
getWaitlistStatus(wl, email) ==
    LET entry == findByEmail(wl, toLowerCase(email))
    IN  IF entry = 0 THEN [res |-> "WAITLIST_ENTRY_NOT_FOUND"]
        ELSE [res |-> "OK", status |-> wl[entry].status,
              position |-> wl[entry].position]

\* verifyInviteCode counting a code as expired at its deadline.
verifyInviteCodeAtDeadline(wl, t, inviteCode) ==
    LET entry == findApprovedByCode(wl, inviteCode)
    IN  IF entry = 0 THEN [valid |-> FALSE, email |-> NoEmail]
        ELSE IF expiredAtDeadline(wl[entry], t) THEN [valid |-> FALSE, email |-> NoEmail]
        ELSE [valid |-> TRUE, email |-> wl[entry].email]

\* POST /waitlist/verify-invite: {valid, email}
verifyInviteCode(wl, t, inviteCode) ==
    LET entry == findApprovedByCode(wl, inviteCode)
    IN  IF entry = 0 THEN [valid |-> FALSE, email |-> NoEmail]
        ELSE IF expired(wl[entry], t) THEN [valid |-> FALSE, email |-> NoEmail]
        ELSE [valid |-> TRUE, email |-> wl[entry].email]

\* adminMiddleware letting every caller that has a role through.
adminMiddlewareAnyRole(userRole) == userRole # "none"

\* ------------------------------------------------------- admin endpoints
\* adminMiddleware: the session user's role must be one of adminRoles.
adminMiddleware(userRole) == userRole # "none" /\ userRole \in AdminRoles

\* An approval stamping the approval time as the expiry.
approvePatchNoExpiration(t, inviteCode) ==
    [status |-> "approved", inviteCode |-> inviteCode,
     inviteExpiresAt |-> t, approvedAt |-> t]

\* An approval writing the time of the update over the entry's createdAt.
approvePatchRestamped(t, inviteCode) ==
    [status |-> "approved", inviteCode |-> inviteCode,
     inviteExpiresAt |-> t + expSeconds, approvedAt |-> t, createdAt |-> t]

\* The fields every approval writes.
approvePatch(t, inviteCode) ==
    [status |-> "approved", inviteCode |-> inviteCode,
     inviteExpiresAt |-> t + expSeconds, approvedAt |-> t]

\* approveEntry without its ALREADY_REGISTERED guard.
approveEntryNoRegisteredGuard(wl, iss, t, userRole, email) ==
    LET normalizedEmail == toLowerCase(email)
        entry == findByEmail(wl, normalizedEmail)
        inviteCode == randomUUID(iss)
    IN  IF ~adminMiddleware(userRole)
        THEN Outcome("UNAUTHORIZED_ADMIN_ACTION", wl, iss, <<>>)
        ELSE IF entry = 0
        THEN Outcome("WAITLIST_ENTRY_NOT_FOUND", wl, iss, <<>>)
        ELSE Outcome("OK",
                     update(wl, [email |-> normalizedEmail],
                            approvePatch(t, inviteCode)),
                     inviteCode, <<"sendInviteEmail", "onApproved">>)

\* approveEntry throwing ALREADY_REGISTERED only after it wrote the update.
approveEntryGuardAfterUpdate(wl, iss, t, userRole, email) ==
    LET normalizedEmail == toLowerCase(email)
        entry == findByEmail(wl, normalizedEmail)
        inviteCode == randomUUID(iss)
        updated == update(wl, [email |-> normalizedEmail],
                          approvePatch(t, inviteCode))
    IN  IF ~adminMiddleware(userRole)
        THEN Outcome("UNAUTHORIZED_ADMIN_ACTION", wl, iss, <<>>)
        ELSE IF entry = 0
        THEN Outcome("WAITLIST_ENTRY_NOT_FOUND", wl, iss, <<>>)
        ELSE IF wl[entry].status = "registered"
        THEN Outcome("ALREADY_REGISTERED", updated, inviteCode, <<>>)
        ELSE Outcome("OK", updated, inviteCode,
                     <<"sendInviteEmail", "onApproved">>)

\* approveEntry leaving the approvedAt of an entry that has one as it is.
approveEntryKeepStamp(wl, iss, t, userRole, email) ==
    LET normalizedEmail == toLowerCase(email)
        entry == findByEmail(wl, normalizedEmail)
        inviteCode == randomUUID(iss)
        patch == approvePatch(t, inviteCode)
        updated == update(wl, [email |-> normalizedEmail],
                          IF entry # 0 /\ wl[entry].approvedAt # Null
                          THEN [patch EXCEPT !.approvedAt = wl[entry].approvedAt]
                          ELSE patch)
    IN  IF ~adminMiddleware(userRole)
        THEN Outcome("UNAUTHORIZED_ADMIN_ACTION", wl, iss, <<>>)
        ELSE IF entry = 0
        THEN Outcome("WAITLIST_ENTRY_NOT_FOUND", wl, iss, <<>>)
        ELSE IF wl[entry].status = "registered"
        THEN Outcome("ALREADY_REGISTERED", wl, iss, <<>>)
        ELSE IF sendInviteEmailThrows
        THEN Outcome("CALLBACK_ERROR", updated, inviteCode,
                     <<"adapter.update", "sendInviteEmail">>)
        ELSE IF onApprovedThrows
        THEN Outcome("CALLBACK_ERROR", updated, inviteCode,
                     <<"adapter.update", "sendInviteEmail", "onApproved">>)
        ELSE Reply(Outcome("OK", updated, inviteCode,
                           <<"adapter.update", "sendInviteEmail", "onApproved">>),
                   merge(wl[entry], updated[entry]))

\* approveEntry keeping the code of an entry that already holds one.
approveEntryKeepCode(wl, iss, t, userRole, email) ==
    LET normalizedEmail == toLowerCase(email)
        entry == findByEmail(wl, normalizedEmail)
        inviteCode == IF entry # 0 /\ wl[entry].inviteCode # Null
                      THEN wl[entry].inviteCode ELSE randomUUID(iss)
        updated == update(wl, [email |-> normalizedEmail],
                          approvePatch(t, inviteCode))
    IN  IF ~adminMiddleware(userRole)
        THEN Outcome("UNAUTHORIZED_ADMIN_ACTION", wl, iss, <<>>)
        ELSE IF entry = 0
        THEN Outcome("WAITLIST_ENTRY_NOT_FOUND", wl, iss, <<>>)
        ELSE IF wl[entry].status = "registered"
        THEN Outcome("ALREADY_REGISTERED", wl, iss, <<>>)
        ELSE IF sendInviteEmailThrows
        THEN Outcome("CALLBACK_ERROR", updated, inviteCode,
                     <<"adapter.update", "sendInviteEmail">>)
        ELSE IF onApprovedThrows
        THEN Outcome("CALLBACK_ERROR", updated, inviteCode,
                     <<"adapter.update", "sendInviteEmail", "onApproved">>)
        ELSE Reply(Outcome("OK", updated, inviteCode,
                           <<"adapter.update", "sendInviteEmail", "onApproved">>),
                   merge(wl[entry], updated[entry]))

\* POST /waitlist/approve
approveEntry(wl, iss, t, userRole, email) ==
    LET normalizedEmail == toLowerCase(email)
        entry == findByEmail(wl, normalizedEmail)
        inviteCode == randomUUID(iss)
        updated == update(wl, [email |-> normalizedEmail],
                          approvePatch(t, inviteCode))
    IN  IF ~adminMiddleware(userRole)
        THEN Outcome("UNAUTHORIZED_ADMIN_ACTION", wl, iss, <<>>)
        ELSE IF entry = 0
        THEN Outcome("WAITLIST_ENTRY_NOT_FOUND", wl, iss, <<>>)
        ELSE IF wl[entry].status = "registered"
        THEN Outcome("ALREADY_REGISTERED", wl, iss, <<>>)
        ELSE IF sendInviteEmailThrows
        THEN Outcome("CALLBACK_ERROR", updated, inviteCode,
                     <<"adapter.update", "sendInviteEmail">>)
        ELSE IF onApprovedThrows
        THEN Outcome("CALLBACK_ERROR", updated, inviteCode,
                     <<"adapter.update", "sendInviteEmail", "onApproved">>)
        ELSE Reply(Outcome("OK", updated, inviteCode,
                           <<"adapter.update", "sendInviteEmail", "onApproved">>),
                   merge(wl[entry], updated[entry]))

\* rejectEntry looking only for a pending entry of the e-mail.
rejectEntryPendingOnly(wl, iss, t, userRole, email) ==
    LET normalizedEmail == toLowerCase(email)
        entry == findOne(wl, [email |-> normalizedEmail, status |-> "pending"])
        updated == update(wl, [email |-> normalizedEmail],
                          [status |-> "rejected", rejectedAt |-> t])
    IN  IF ~adminMiddleware(userRole)
        THEN Outcome("UNAUTHORIZED_ADMIN_ACTION", wl, iss, <<>>)
        ELSE IF entry = 0
        THEN Outcome("WAITLIST_ENTRY_NOT_FOUND", wl, iss, <<>>)
        ELSE IF onRejectedThrows
        THEN Outcome("CALLBACK_ERROR", updated, iss,
                     <<"adapter.update", "onRejected">>)
        ELSE Reply(Outcome("OK", updated, iss, <<"adapter.update", "onRejected">>),
                   merge(wl[entry], updated[entry]))

\* rejectEntry undoing its update when onRejected throws.
rejectEntryRollback(wl, iss, t, userRole, email) ==
    LET normalizedEmail == toLowerCase(email)
        entry == findByEmail(wl, normalizedEmail)
        updated == update(wl, [email |-> normalizedEmail],
                          [status |-> "rejected", rejectedAt |-> t])
    IN  IF ~adminMiddleware(userRole)
        THEN Outcome("UNAUTHORIZED_ADMIN_ACTION", wl, iss, <<>>)
        ELSE IF entry = 0
        THEN Outcome("WAITLIST_ENTRY_NOT_FOUND", wl, iss, <<>>)
        ELSE IF onRejectedThrows
        THEN Outcome("CALLBACK_ERROR", wl, iss,
                     <<"adapter.update", "onRejected">>)
        ELSE Reply(Outcome("OK", updated, iss, <<"adapter.update", "onRejected">>),
                   merge(wl[entry], updated[entry]))

\* POST /waitlist/reject
rejectEntry(wl, iss, t, userRole, email) ==
    LET normalizedEmail == toLowerCase(email)
        entry == findByEmail(wl, normalizedEmail)
        updated == update(wl, [email |-> normalizedEmail],
                          [status |-> "rejected", rejectedAt |-> t])
    IN  IF ~adminMiddleware(userRole)
        THEN Outcome("UNAUTHORIZED_ADMIN_ACTION", wl, iss, <<>>)
        ELSE IF entry = 0
        THEN Outcome("WAITLIST_ENTRY_NOT_FOUND", wl, iss, <<>>)
        ELSE IF onRejectedThrows
        THEN Outcome("CALLBACK_ERROR", updated, iss,
                     <<"adapter.update", "onRejected">>)
        ELSE Reply(Outcome("OK", updated, iss, <<"adapter.update", "onRejected">>),
                   merge(wl[entry], updated[entry]))


\* adapter.findMany({where, sortBy: {field: "position", direction: "asc"},
\* limit}): the ids of the matching records, smallest position first (the
\* store's own order among equal positions), at most `limit` of them.
RECURSIVE sortByPosition(_, _)
sortByPosition(wl, ids) ==
    IF ids = {} THEN <<>>
    ELSE LET first == CHOOSE i \in ids :
                 \A j \in ids : \/ wl[i].position < wl[j].position
                                \/ (wl[i].position = wl[j].position /\ i <= j)
         IN  <<first>> \o sortByPosition(wl, ids \ {first})

\* findMany keeping the last `limit` matches of the sorted list.
findManyLast(wl, where, limit) ==
    LET sorted == sortByPosition(wl, {i \in DOMAIN wl : matches(wl[i], where)})
    IN  IF Len(sorted) <= limit THEN sorted
        ELSE SubSeq(sorted, Len(sorted) - limit + 1, Len(sorted))

findMany(wl, where, limit) ==
    LET sorted == sortByPosition(wl, {i \in DOMAIN wl : matches(wl[i], where)})
    IN  IF Len(sorted) <= limit THEN sorted ELSE SubSeq(sorted, 1, limit)

\* What a bulkApprove loop has done so far: the store writes and callbacks,
\* and the `approved` array.
NothingDone == [calls |-> <<>>, approved |-> <<>>]

\* One iteration's effect on an entry that is approved: the update, the
\* push to `approved`, then sendInviteEmail.
approveStep(done, updatedEntry) ==
    [calls |-> done.calls \o <<"adapter.update", "sendInviteEmail">>,
     approved |-> Append(done.approved, updatedEntry)]

\* ... and, when sendInviteEmail returned, onApproved.
notifyStep(done) == [done EXCEPT !.calls = @ \o <<"onApproved">>]

\* return ctx.json({approved: approved.length, entries: approved})
bulkReply(wl, iss, done) ==
    Reply(Outcome("OK", wl, iss, done.calls),
          [approved |-> Len(done.approved), entries |-> done.approved])

\* The loop over body.emails skipping only the e-mails without an entry.
RECURSIVE bulkApproveEmailsAnyStatus(_, _, _, _, _)
bulkApproveEmailsAnyStatus(wl, iss, t, emails, done) ==
    IF emails = <<>> THEN bulkReply(wl, iss, done)
    ELSE LET normalizedEmail == toLowerCase(Head(emails))
             entry == findByEmail(wl, normalizedEmail)
             inviteCode == randomUUID(iss)
             patch == approvePatch(t, inviteCode)
             updated == update(wl, [email |-> normalizedEmail], patch)
             step == approveStep(done, merge(wl[entry], patch))
         IN  IF entry = 0
             THEN bulkApproveEmailsAnyStatus(wl, iss, t, Tail(emails), done)
             ELSE IF sendInviteEmailThrows
             THEN Outcome("CALLBACK_ERROR", updated, inviteCode, step.calls)
             ELSE IF onApprovedThrows
             THEN Outcome("CALLBACK_ERROR", updated, inviteCode,
                          notifyStep(step).calls)
             ELSE bulkApproveEmailsAnyStatus(updated, inviteCode, t, Tail(emails),
                                    notifyStep(step))

\* bulkApprove's loop over body.emails: an e-mail whose entry is missing
\* or not pending is skipped; the others are approved one after another.
\* A callback that throws ends the loop and the handler.
RECURSIVE bulkApproveEmails(_, _, _, _, _)
bulkApproveEmails(wl, iss, t, emails, done) ==
    IF emails = <<>> THEN bulkReply(wl, iss, done)
    ELSE LET normalizedEmail == toLowerCase(Head(emails))
             entry == findByEmail(wl, normalizedEmail)
             inviteCode == randomUUID(iss)
             patch == approvePatch(t, inviteCode)
             updated == update(wl, [email |-> normalizedEmail], patch)
             step == approveStep(done, merge(wl[entry], patch))
         IN  IF entry = 0 \/ wl[entry].status # "pending"
             THEN bulkApproveEmails(wl, iss, t, Tail(emails), done)
             ELSE IF sendInviteEmailThrows
             THEN Outcome("CALLBACK_ERROR", updated, inviteCode, step.calls)
             ELSE IF onApprovedThrows
             THEN Outcome("CALLBACK_ERROR", updated, inviteCode,
                          notifyStep(step).calls)
             ELSE bulkApproveEmails(updated, inviteCode, t, Tail(emails),
                                    notifyStep(step))

\* bulkApprove's loop over the pending entries findMany returned: each is
\* updated by id, whatever its status has become.
RECURSIVE bulkApproveIds(_, _, _, _, _)
bulkApproveIds(wl, iss, t, ids, done) ==
    IF ids = <<>> THEN bulkReply(wl, iss, done)
    ELSE LET inviteCode == randomUUID(iss)
             patch == approvePatch(t, inviteCode)
             updated == [wl EXCEPT ![Head(ids)] = merge(@, patch)]
             step == approveStep(done, merge(wl[Head(ids)], patch))
         IN  IF sendInviteEmailThrows
             THEN Outcome("CALLBACK_ERROR", updated, inviteCode, step.calls)
             ELSE IF onApprovedThrows
             THEN Outcome("CALLBACK_ERROR", updated, inviteCode,
                          notifyStep(step).calls)
             ELSE bulkApproveIds(updated, inviteCode, t, Tail(ids),
                                 notifyStep(step))

\* POST /waitlist/bulk-approve: body {emails?, count?}; emails = <<>> and
\* cnt = Null stand for the absent fields.
bulkApprove(wl, iss, t, userRole, emails, cnt) ==
    IF ~adminMiddleware(userRole)
    THEN Outcome("UNAUTHORIZED_ADMIN_ACTION", wl, iss, <<>>)
    ELSE IF Len(emails) > 0
    THEN bulkApproveEmails(wl, iss, t, emails, NothingDone)
    ELSE IF cnt # Null /\ cnt # 0
    THEN bulkApproveIds(wl, iss, t, findMany(wl, [status |-> "pending"], cnt),
                        NothingDone)
    ELSE bulkReply(wl, iss, NothingDone)

\* adapter.findMany({where, sortBy: {field: "position", direction}, limit,
\* offset}): the matching records in the order asked for, without the first
\* `offset` of them, at most `limit`.
reverse(s) == [k \in DOMAIN s |-> s[Len(s) + 1 - k]]

findManyPage(wl, where, direction, limit, offset) ==
    LET asc == sortByPosition(wl, {i \in DOMAIN wl : matches(wl[i], where)})
        sorted == IF direction = "asc" THEN asc ELSE reverse(asc)
        end == IF offset + limit <= Len(sorted) THEN offset + limit
               ELSE Len(sorted)
    IN  SubSeq(sorted, offset + 1, end)

\* Math.ceil(total / limit)
ceilDiv(total, limit) == (total + limit - 1) \div limit

\* ctx.query.limit ?? 20
DefaultLimit == 20

\* GET /waitlist/list: query {status?, page?, limit?, sortBy, sortDirection};
\* status = "" and page, limit = Null stand for the absent fields.
listWaitlist(wl, iss, userRole, query) ==
    LET page == IF query.page = Null THEN 1 ELSE query.page
        limit == IF query.limit = Null THEN DefaultLimit ELSE query.limit
        offset == (page - 1) * limit
        where == IF query.status = "" THEN <<>> ELSE [status |-> query.status]
        ids == findManyPage(wl, where, query.sortDirection, limit, offset)
        total == count(wl, where)
    IN  IF ~adminMiddleware(userRole)
        THEN Outcome("UNAUTHORIZED_ADMIN_ACTION", wl, iss, <<>>)
        ELSE Reply(Outcome("OK", wl, iss, <<>>),
                   [entries |-> [k \in DOMAIN ids |-> wl[ids[k]]],
                    total |-> total, page |-> page,
                    totalPages |-> ceilDiv(total, limit)])

\* getWaitlistStats taking the number of pending entries for the total.
getWaitlistStatsPendingTotal(wl, iss, userRole) ==
    IF ~adminMiddleware(userRole)
    THEN Outcome("UNAUTHORIZED_ADMIN_ACTION", wl, iss, <<>>)
    ELSE Reply(Outcome("OK", wl, iss, <<>>),
               [total |-> count(wl, [status |-> "pending"]),
                pending |-> count(wl, [status |-> "pending"]),
                approved |-> count(wl, [status |-> "approved"]),
                rejected |-> count(wl, [status |-> "rejected"]),
                registered |-> count(wl, [status |-> "registered"])])

\* GET /waitlist/stats: five counts, one after another.
getWaitlistStats(wl, iss, userRole) ==
    IF ~adminMiddleware(userRole)
    THEN Outcome("UNAUTHORIZED_ADMIN_ACTION", wl, iss, <<>>)
    ELSE Reply(Outcome("OK", wl, iss, <<>>),
               [total |-> count(wl, <<>>),
                pending |-> count(wl, [status |-> "pending"]),
                approved |-> count(wl, [status |-> "approved"]),
                rejected |-> count(wl, [status |-> "rejected"]),
                registered |-> count(wl, [status |-> "registered"])])


\* --------------------------------------------- Layer A: the request hook
\* A path is the sequence of its segments; a trailing "/" is an empty last
\* segment, which every segment starts with.
DEFAULT_INTERCEPT_PATHS ==
    { <<"sign-up", "email">>, <<"callback", "">>, <<"oauth2", "callback", "">>,
      <<"magic-link", "verify">>, <<"sign-in", "email-otp">>,
      <<"email-otp", "verify-email">>, <<"phone-number", "verify">>,
      <<"sign-in", "anonymous">>, <<"one-tap", "callback">>, <<"siwe", "verify">> }

\* context.path === p || context.path?.startsWith(p)
startsWith(path, p) ==
    /\ Len(p) <= Len(path)
    /\ \A i \in 1..(Len(p) - 1) : path[i] = p[i]
    /\ (p[Len(p)] = "" \/ path[Len(p)] = p[Len(p)])

\* The matcher without the enabled switch.
matcherAlwaysOn(path) ==
    \E p \in DEFAULT_INTERCEPT_PATHS : path = p \/ startsWith(path, p)

\* hooks.before[0].matcher
matcher(path) ==
    IF ~opts.enabled THEN FALSE
    ELSE \E p \in DEFAULT_INTERCEPT_PATHS : path = p \/ startsWith(path, p)

\* ctx.context.internalAdapter.findUserByEmail(normalizedEmail)
findUserByEmail(us, normalizedEmail) == normalizedEmail \in us

\* ctx.body?.inviteCode || ctx.headers?.get("x-invite-code")
requestInviteCode(bodyCode, headerCode) ==
    IF bodyCode # Null THEN bodyCode ELSE headerCode

\* The handler turning away every attempt whose body carries no e-mail.
hooksBeforeHandlerEmailRequired(wl, us, t, email, bodyCode, headerCode) ==
    LET existingUser == email # NoEmail /\ findUserByEmail(us, toLowerCase(email))
        code == requestInviteCode(bodyCode, headerCode)
        byCode == findApprovedByCode(wl, code)
        byEmail == findByEmail(wl, toLowerCase(email))
    IN  IF existingUser THEN "ADMIT"
        ELSE IF opts.requireInviteCode
        THEN IF code = Null THEN "INVITE_CODE_REQUIRED"
             ELSE IF byCode = 0 THEN "INVALID_INVITE_CODE"
             ELSE IF expired(wl[byCode], t) THEN "INVALID_INVITE_CODE"
             ELSE "ADMIT"
        ELSE IF email # NoEmail
        THEN IF byEmail = 0 \/ wl[byEmail].status # "approved"
             THEN "NOT_APPROVED"
             ELSE "ADMIT"
        ELSE "NOT_APPROVED"

\* The handler with the e-mail branch testing only that an entry exists.
hooksBeforeHandlerAnyEntry(wl, us, t, email, bodyCode, headerCode) ==
    LET existingUser == email # NoEmail /\ findUserByEmail(us, toLowerCase(email))
        code == requestInviteCode(bodyCode, headerCode)
        byCode == findApprovedByCode(wl, code)
        byEmail == findByEmail(wl, toLowerCase(email))
    IN  IF existingUser THEN "ADMIT"
        ELSE IF opts.requireInviteCode
        THEN IF code = Null THEN "INVITE_CODE_REQUIRED"
             ELSE IF byCode = 0 THEN "INVALID_INVITE_CODE"
             ELSE IF expired(wl[byCode], t) THEN "INVALID_INVITE_CODE"
             ELSE "ADMIT"
        ELSE IF email # NoEmail
        THEN IF byEmail = 0 THEN "NOT_APPROVED" ELSE "ADMIT"
        ELSE "ADMIT"

\* The handler looking the account up by the e-mail as the body spells it.
hooksBeforeHandlerRawUser(wl, us, t, email, bodyCode, headerCode) ==
    LET existingUser == email # NoEmail /\ findUserByEmail(us, email)
        code == requestInviteCode(bodyCode, headerCode)
        byCode == findApprovedByCode(wl, code)
        byEmail == findByEmail(wl, toLowerCase(email))
    IN  IF existingUser THEN "ADMIT"
        ELSE IF opts.requireInviteCode
        THEN IF code = Null THEN "INVITE_CODE_REQUIRED"
             ELSE IF byCode = 0 THEN "INVALID_INVITE_CODE"
             ELSE IF expired(wl[byCode], t) THEN "INVALID_INVITE_CODE"
             ELSE "ADMIT"
        ELSE IF email # NoEmail
        THEN IF byEmail = 0 \/ wl[byEmail].status # "approved"
             THEN "NOT_APPROVED"
             ELSE "ADMIT"
        ELSE "ADMIT"

\* hooks.before[0].handler: "ADMIT" when it returns, else the error thrown.
hooksBeforeHandler(wl, us, t, email, bodyCode, headerCode) ==
    LET existingUser == email # NoEmail /\ findUserByEmail(us, toLowerCase(email))
        code == requestInviteCode(bodyCode, headerCode)
        byCode == findApprovedByCode(wl, code)
        byEmail == findByEmail(wl, toLowerCase(email))
    IN  IF existingUser THEN "ADMIT"
        ELSE IF opts.requireInviteCode
        THEN IF code = Null THEN "INVITE_CODE_REQUIRED"
             ELSE IF byCode = 0 THEN "INVALID_INVITE_CODE"
             ELSE IF expired(wl[byCode], t) THEN "INVALID_INVITE_CODE"
             ELSE "ADMIT"
        ELSE IF email # NoEmail
        THEN IF byEmail = 0 \/ wl[byEmail].status # "approved"
             THEN "NOT_APPROVED"
             ELSE "ADMIT"
        ELSE "ADMIT"

\* The lookups the handler awaits on its way, in order: the account of the
\* body's e-mail, then the entry of the code or of the e-mail.
hooksBeforeLookups(us, email, bodyCode, headerCode) ==
    LET existingUser == email # NoEmail /\ findUserByEmail(us, toLowerCase(email))
        code == requestInviteCode(bodyCode, headerCode)
    IN  (IF email # NoEmail THEN <<"internalAdapter.findUserByEmail">> ELSE <<>>)
        \o (IF existingUser THEN <<>>
            ELSE IF opts.requireInviteCode
            THEN IF code = Null THEN <<>> ELSE <<"adapter.findOne">>
            ELSE IF email # NoEmail THEN <<"adapter.findOne">>
            ELSE <<>>)

\* Layer B looking for any entry of the e-mail, whatever its status.
userCreateBeforeAnyEntry(wl, userEmail, isAnonymous, hasCtx) ==
    IF ~opts.enabled THEN TRUE
    ELSE IF opts.skipAnonymous /\ isAnonymous THEN TRUE
    ELSE IF userEmail = NoEmail THEN TRUE
    ELSE IF ~hasCtx THEN TRUE
    ELSE findByEmail(wl, toLowerCase(userEmail)) # 0

\* The completion step looking the e-mail up as the record spells it.
userCreateAfterRawEmail(wl, t, userEmail, hasCtx) ==
    IF ~opts.enabled THEN wl
    ELSE IF userEmail = NoEmail THEN wl
    ELSE IF ~hasCtx THEN wl
    ELSE IF findByEmail(wl, userEmail) = 0 THEN wl
    ELSE update(wl, [email |-> userEmail],
                [status |-> "registered", registeredAt |-> t])

\* ------------------------- Layer B and the completion step: databaseHooks
\* databaseHooks.user.create.before: FALSE when it returns false (the host
\* then does not persist the user), TRUE when it returns undefined.
\* hasCtx: the host passed an endpoint context that carries the adapter.
userCreateBefore(wl, userEmail, isAnonymous, hasCtx) ==
    IF ~opts.enabled THEN TRUE
    ELSE IF opts.skipAnonymous /\ isAnonymous THEN TRUE
    ELSE IF userEmail = NoEmail THEN TRUE
    ELSE IF ~hasCtx THEN TRUE
    ELSE findApprovedByEmail(wl, toLowerCase(userEmail)) # 0

\* The lookups user.create.before awaits: none on an early return.
userCreateBeforeLookups(userEmail, isAnonymous, hasCtx) ==
    IF ~opts.enabled THEN <<>>
    ELSE IF opts.skipAnonymous /\ isAnonymous THEN <<>>
    ELSE IF userEmail = NoEmail THEN <<>>
    ELSE IF ~hasCtx THEN <<>>
    ELSE <<"adapter.findOne">>

\* databaseHooks.user.create.after: the store after it.
userCreateAfter(wl, t, userEmail, hasCtx) ==
    IF ~opts.enabled THEN wl
    ELSE IF userEmail = NoEmail THEN wl
    ELSE IF ~hasCtx THEN wl
    ELSE IF findByEmail(wl, toLowerCase(userEmail)) = 0 THEN wl
    ELSE update(wl, [email |-> toLowerCase(userEmail)],
                [status |-> "registered", registeredAt |-> t])


\* ============================================================ the system
\* The requests explored.  The first path is a registration path of the
\* host that the hook intercepts (by prefix); the second creates a user as
\* well and is not in DEFAULT_INTERCEPT_PATHS.
ReqPaths == { <<"callback", "google">>, <<"admin", "create-user">> }
Roles == {"admin", "user", "none"}
CodeInputs == BogusCode..issued

LastOp(op, arg, res, calls) ==
    [op |-> op, arg |-> arg, res |-> res, calls |-> calls, body |-> Null]

\* The slots of the requests in flight; an idle slot holds no request.
Slots == 1..MaxInflight
Idle == [op |-> "idle"]

InitWith(configs) ==
    /\ opts \in configs
    /\ waitlist = <<>>
    /\ users = {}
    /\ now = 0
    /\ issued = 0
    /\ usedCodes = {}
    /\ last = LastOp("init", NoEmail, "OK", <<>>)
    /\ inflight = [p \in Slots |-> Idle]

\* Time passes.
Tick ==
    /\ now < MaxTime
    /\ now' = now + 1
    /\ last' = LastOp("tick", NoEmail, "OK", <<>>)
    /\ UNCHANGED <<opts, waitlist, users, issued, usedCodes, inflight>>

\* An endpoint handler runs: the store and the code counter become the
\* outcome's, and the operation is recorded.
Apply(op, arg, out) ==
    /\ out.iss <= MaxCodes
    /\ waitlist' = out.wl
    /\ issued' = out.iss
    /\ last' = [LastOp(op, arg, out.res, out.calls) EXCEPT !.body = out.body]
    /\ UNCHANGED <<opts, users, now, usedCodes, inflight>>

JoinWaitlist(E) ==
    \E email \in E :
        Apply("join", email, joinWaitlist(waitlist, issued, now, email))

\* The bodies of a join that names who referred the caller and carries
\* metadata: absent, an empty object, an object with one member.
Referrers == {NoReferrer, <<"r">>}
MetadataInputs ==
    { [given |-> FALSE, value |-> <<>>],
      [given |-> TRUE, value |-> << <<"plan", "pro">> >>] }

JoinWaitlistBody(E) ==
    \E email \in E, referredBy \in Referrers :
    \E metadata \in {m \in MetadataInputs : m.given = (referredBy # NoReferrer)} :
        Apply("join", email,
              joinWaitlistBody(waitlist, issued, now,
                               [email |-> email, referredBy |-> referredBy,
                                metadata |-> metadata]))

GetWaitlistStatus(E) ==
    \E email \in E :
        /\ last' = LastOp("status", email, getWaitlistStatus(waitlist, email), <<>>)
        /\ UNCHANGED <<opts, waitlist, users, now, issued, usedCodes, inflight>>

VerifyInviteCode ==
    \E code \in CodeInputs :
        /\ last' = LastOp("verifyInvite", code,
                          verifyInviteCode(waitlist, now, code), <<>>)
        /\ UNCHANGED <<opts, waitlist, users, now, issued, usedCodes, inflight>>

\* The bodies explored for a caller of an admin endpoint: adminMiddleware
\* runs before the handler reads the body, so a caller it turns away is
\* explored with a single body.
AdminBodies(userRole, bodies) ==
    IF adminMiddleware(userRole) THEN bodies
    ELSE {CHOOSE b \in bodies : TRUE}

ApproveEntry(E) ==
    \E userRole \in Roles :
    \E email \in AdminBodies(userRole, E) :
        Apply("approve", [userRole |-> userRole, email |-> email], approveEntry(waitlist, issued, now, userRole, email))

RejectEntry(E) ==
    \E userRole \in Roles :
    \E email \in AdminBodies(userRole, E) :
        Apply("reject", [userRole |-> userRole, email |-> email], rejectEntry(waitlist, issued, now, userRole, email))

\* body.emails ranges over the lists of one or two e-mails of E that do not
\* repeat an e-mail, body.count over 1..2; exactly one of the two is given.
BulkLists(E) == {<<e>> : e \in E}
                \cup {p \in E \X E : p[1] # p[2]}

BulkApprove(E) ==
    \E userRole \in Roles :
        \/ \E emails \in AdminBodies(userRole, BulkLists(E)) :
               Apply("bulkApprove", [userRole |-> userRole, emails |-> emails],
                     bulkApprove(waitlist, issued, now, userRole, emails, Null))
        \/ \E cnt \in AdminBodies(userRole, 1..2) :
               Apply("bulkApprove", [userRole |-> userRole, count |-> cnt],
                     bulkApprove(waitlist, issued, now, userRole, <<>>, cnt))

\* The queries explored for the listing: no status filter or "pending",
\* the defaults for page and limit or the second page of one entry each,
\* by position in either direction.
ListQueries ==
    { [status |-> status, page |-> paging[1], limit |-> paging[2],
       sortBy |-> "position", sortDirection |-> direction] :
        status \in {"", "pending"}, paging \in {<<Null, Null>>, <<2, 1>>},
        direction \in {"asc", "desc"} }

ListWaitlist ==
    \E userRole \in Roles :
    \E query \in AdminBodies(userRole, ListQueries) :
        Apply("list", [userRole |-> userRole, query |-> query],
              listWaitlist(waitlist, issued, userRole, query))

GetWaitlistStats ==
    \E userRole \in Roles :
        Apply("stats", [userRole |-> userRole],
              getWaitlistStats(waitlist, issued, userRole))

\* What the host does with a request on one of its registration paths, in
\* one sequential run.  Layer A runs when the matcher accepts the path.  If
\* the attempt gets through and its e-mail has no account (with an account
\* it is a sign-in and no user is created), the host materializes the user
\* record and runs databaseHooks.user.create.before on it; unless the hook
\* returns false the host persists the record (e-mails are stored
\* lowercased) and then runs databaseHooks.user.create.after.
\* request: path, email, bodyCode, headerCode and Layer A's verdict;
\* user: the candidate record (email, isAnonymous) and hasCtx, whether the
\* host hands the database hooks an endpoint context carrying the adapter.
NoUser == [email |-> NoEmail, isAnonymous |-> FALSE, hasCtx |-> FALSE]

\* The host trusting the verdict Layer A reached on the request's e-mail.
RegistrationCached(request, creates, user) ==
    LET allowed == \/ (request.layerA = "ADMIT" /\ request.email # NoEmail)
                   \/ userCreateBefore(waitlist, user.email, user.isAnonymous,
                                       user.hasCtx)
        persisted == creates /\ allowed
    IN  /\ users' = IF persisted /\ user.email # NoEmail
                    THEN users \cup {toLowerCase(user.email)} ELSE users
        /\ waitlist' = IF persisted
                       THEN userCreateAfter(waitlist, now, user.email, user.hasCtx)
                       ELSE waitlist
        /\ usedCodes' = IF persisted /\ request.layerA = "ADMIT"
                                     /\ opts.requireInviteCode
                        THEN usedCodes \cup
                             {requestInviteCode(request.bodyCode,
                                                request.headerCode)}
                        ELSE usedCodes
        /\ last' = LastOp("register", [request |-> request, user |-> user],
                          IF ~(request.layerA \in {"ADMIT", "SKIP"})
                          THEN request.layerA
                          ELSE IF ~creates THEN "SIGNED_IN"
                          ELSE IF ~allowed THEN "BLOCKED"
                          ELSE "REGISTERED",
                          <<>>)
        /\ UNCHANGED <<opts, now, issued>>

Registration(request, creates, user) ==
    LET allowed == userCreateBefore(waitlist, user.email, user.isAnonymous,
                                    user.hasCtx)
        persisted == creates /\ allowed
    IN  /\ users' = IF persisted /\ user.email # NoEmail
                    THEN users \cup {toLowerCase(user.email)} ELSE users
        /\ waitlist' = IF persisted
                       THEN userCreateAfter(waitlist, now, user.email, user.hasCtx)
                       ELSE waitlist
        /\ usedCodes' = IF persisted /\ request.layerA = "ADMIT"
                                     /\ opts.requireInviteCode
                        THEN usedCodes \cup
                             {requestInviteCode(request.bodyCode,
                                                request.headerCode)}
                        ELSE usedCodes
        /\ last' = LastOp("register", [request |-> request, user |-> user],
                          IF ~(request.layerA \in {"ADMIT", "SKIP"})
                          THEN request.layerA
                          ELSE IF ~creates THEN "SIGNED_IN"
                          ELSE IF ~allowed THEN "BLOCKED"
                          ELSE "REGISTERED",
                          <<>>)
        /\ UNCHANGED <<opts, now, issued>>

\* The invite codes a request may carry: none, a made-up one, or any code
\* issued so far.  The hook reads the code only when it runs and
\* requireInviteCode is set; other requests are explored without a code.
RequestCodes(path) ==
    IF matcher(path) /\ opts.requireInviteCode THEN CodeInputs \cup {Null}
    ELSE {Null}

\* The requests and candidate records explored, with paths from Paths and
\* e-mails from E.  A
\* request with a body e-mail (a sign-up form) carries its code in the body,
\* one without (a callback) in the x-invite-code header.  A request that
\* carries an e-mail yields a record with that e-mail; otherwise the e-mail
\* comes from the identity provider (one that has no account yet), or the
\* record has none.
RegisterOn(Paths, E) ==
    /\ \E path \in Paths, email \in E \cup {NoEmail} :
       \E code \in RequestCodes(path) :
           LET bodyCode == IF email # NoEmail THEN code ELSE Null
               headerCode == IF email # NoEmail THEN Null ELSE code
               layerA == IF matcher(path)
                         THEN hooksBeforeHandler(waitlist, users, now, email,
                                                 bodyCode, headerCode)
                         ELSE "SKIP"
               existing == email # NoEmail
                           /\ findUserByEmail(users, toLowerCase(email))
               request == [path |-> path, email |-> email, bodyCode |-> bodyCode,
                           headerCode |-> headerCode, layerA |-> layerA]
           IN  IF layerA \in {"ADMIT", "SKIP"} /\ ~existing
               THEN \E hasCtx \in BOOLEAN,
                       userEmail \in IF email # NoEmail THEN {email}
                                     ELSE {e \in E : ~findUserByEmail(users, toLowerCase(e))}
                                          \cup {NoEmail},
                       isAnonymous \in IF email # NoEmail THEN {FALSE} ELSE BOOLEAN :
                        Registration(request, TRUE,
                                     [email |-> userEmail,
                                      isAnonymous |-> isAnonymous,
                                      hasCtx |-> hasCtx])
               ELSE Registration(request, FALSE, NoUser)
    /\ UNCHANGED inflight

Register(E) == RegisterOn(ReqPaths, E)

\* Every operation, with e-mails from E.
Operation(E) ==
    \/ JoinWaitlist(E)
    \/ GetWaitlistStatus(E)
    \/ VerifyInviteCode
    \/ ApproveEntry(E)
    \/ RejectEntry(E)
    \/ BulkApprove(E)
    \/ Register(E)

\* The specifications.  Spec and SpecInvite: one waitlist e-mail in two
\* spellings, with the clock; SpecDuo: two waitlist e-mails, at one instant.
SoloEmails == {<<"a">>, <<"A">>}

Next == Tick \/ Operation(SoloEmails)

Init == InitWith(GateConfigs)

Spec == Init /\ [][Next]_vars

SpecInvite == InitWith(InviteConfigs) /\ [][Next]_vars

NextDuo == Operation(RawEmails)

SpecDuo == InitWith({DefaultOptions}) /\ [][NextDuo]_vars

\* The endpoints alone, without the hooks.
Endpoints(E) ==
    \/ JoinWaitlist(E)
    \/ GetWaitlistStatus(E)
    \/ VerifyInviteCode
    \/ ApproveEntry(E)
    \/ RejectEntry(E)
    \/ BulkApprove(E)

\* SpecQueue: three waitlist e-mails at the endpoints, with and without a
\* size limit.  SpecAuto: autoApprove set, with the clock.  SpecThrow: the
\* application's sendInviteEmail throws.
QueueEmails == {<<"a">>, <<"b">>, <<"c">>}
PairEmails == {<<"a">>, <<"b">>}

QueueConfigs ==
    {DefaultOptions} \cup {[DefaultOptions EXCEPT !.maxWaitlistSize = m] : m \in 1..2}

AutoConfigs ==
    { [DefaultOptions EXCEPT !.autoApprove = mode, !.inviteCodeExpiration = 1] :
        mode \in {"off", "always", "predicate"} }

NextQueue == Endpoints(QueueEmails)

SpecQueue == InitWith(QueueConfigs) /\ [][NextQueue]_vars

NextAuto == Tick \/ Endpoints(RawEmails)

SpecAuto == InitWith(AutoConfigs) /\ [][NextAuto]_vars

NextThrow == Operation(PairEmails)

SpecThrow ==
    InitWith({[DefaultOptions EXCEPT !.sendInviteEmail = "throws"]})
      /\ [][NextThrow]_vars

\* SpecFail: one of the application's callbacks throws, with and without
\* autoApprove.
Callbacks == {"onJoinWaitlist", "sendInviteEmail", "onApproved", "onRejected"}

FailConfigs ==
    { [DefaultOptions EXCEPT ![cb] = "throws", !.autoApprove = mode] :
        cb \in Callbacks, mode \in {"off", "always"} }

NextFail == Endpoints(PairEmails)

SpecFail == InitWith(FailConfigs) /\ [][NextFail]_vars

\* SpecAdmin: every operation, the listing and the statistics included, for
\* two waitlist e-mails.
NextAdmin == Operation(PairEmails) \/ ListWaitlist \/ GetWaitlistStats

SpecAdmin == InitWith({DefaultOptions}) /\ [][NextAdmin]_vars

\* SpecGate: every combination of enabled, requireInviteCode and
\* skipAnonymous, with the sign-up and the anonymous sign-in paths and a
\* path the hook does not intercept.
GatePaths ==
    { <<"sign-up", "email">>, <<"sign-in", "anonymous">>,
      <<"admin", "create-user">> }

AllGateConfigs ==
    { [DefaultOptions EXCEPT !.enabled = en, !.requireInviteCode = rq,
                             !.skipAnonymous = sk] :
        en \in BOOLEAN, rq \in BOOLEAN, sk \in BOOLEAN }

NextGate == Endpoints(SoloEmails) \/ RegisterOn(GatePaths, SoloEmails)

SpecGate == InitWith(AllGateConfigs) /\ [][NextGate]_vars

\* ------------------------------------------ handlers suspended at an await
\* A handler runs until it awaits an adapter call; the store performs the
\* call, and the handler goes on, in a later step.  Other requests run in
\* between.  A request in flight sits in a slot with its position in the
\* handler (pc) and the handler's local variables.
FreeSlot == Min({p \in Slots : inflight[p].op = "idle"})

Await(p, call) == LastOp("await", p, call, <<>>)

\* A handler ends: its slot is free again and the operation is recorded.
Finish(p, op, arg, out) ==
    /\ inflight' = [inflight EXCEPT ![p] = Idle]
    /\ waitlist' = out.wl
    /\ last' = [LastOp(op, arg, out.res, out.calls) EXCEPT !.body = out.body]

\* joinWaitlist, from the count to the call of adapter.create: the record
\* it hands to the store, made from the totalCount it read.
joinData(totalCount, iss, t, normalizedEmail) ==
    LET shouldApprove ==
            CASE opts.autoApprove = "off" -> FALSE
              [] opts.autoApprove = "predicate" -> autoApprovePredicate(normalizedEmail)
              [] OTHER -> TRUE
    IN  [email |-> normalizedEmail,
         status |-> IF shouldApprove THEN "approved" ELSE "pending",
         inviteCode |-> IF shouldApprove THEN randomUUID(iss) ELSE Null,
         inviteExpiresAt |-> IF shouldApprove THEN t + expSeconds ELSE Null,
         position |-> totalCount + 1,
         approvedAt |-> IF shouldApprove THEN t ELSE Null,
         rejectedAt |-> Null,
         registeredAt |-> Null,
         referredBy |-> NoReferrer, metadata |-> NoMetadata,
             createdAt |-> t]

\* joinWaitlist after adapter.create returned: the callbacks and the response.
joinNotify(wl, iss, entry) ==
    LET approved == entry.status = "approved"
    IN  IF onJoinWaitlistThrows
        THEN Outcome("CALLBACK_ERROR", wl, iss,
                     <<"adapter.create", "onJoinWaitlist">>)
        ELSE IF approved /\ sendInviteEmailThrows
        THEN Outcome("CALLBACK_ERROR", wl, iss,
                     <<"adapter.create", "onJoinWaitlist", "sendInviteEmail">>)
        ELSE IF approved /\ onApprovedThrows
        THEN Outcome("CALLBACK_ERROR", wl, iss,
                     <<"adapter.create", "onJoinWaitlist", "sendInviteEmail",
                       "onApproved">>)
        ELSE Reply(Outcome("OK", wl, iss,
                           <<"adapter.create", "onJoinWaitlist">>
                           \o (IF approved
                               THEN <<"sendInviteEmail", "onApproved">>
                               ELSE <<>>)),
                   [email |-> entry.email, status |-> entry.status,
                    position |-> entry.position])

\* A join arrives: the handler awaits findOne for the normalized e-mail and
\* throws if there is an entry.
JoinFindOne(E) ==
    \E email \in E :
        /\ \E p \in Slots : inflight[p].op = "idle"
        /\ IF findByEmail(waitlist, toLowerCase(email)) # 0
           THEN /\ last' = LastOp("join", email, "EMAIL_ALREADY_IN_WAITLIST", <<>>)
                /\ UNCHANGED inflight
           ELSE /\ inflight' =
                     [inflight EXCEPT ![FreeSlot] =
                        [op |-> "join", email |-> email,
                         pc |-> IF opts.maxWaitlistSize # Null
                                   /\ opts.maxWaitlistSize # 0
                                THEN "size" ELSE "count"]]
                /\ last' = Await(FreeSlot, "findOne")
        /\ UNCHANGED <<opts, waitlist, users, now, issued, usedCodes>>

\* ... awaits the count it holds against maxWaitlistSize,
JoinSize(p) ==
    /\ inflight[p].op = "join" /\ inflight[p].pc = "size"
    /\ IF count(waitlist, <<>>) >= opts.maxWaitlistSize
       THEN Finish(p, "join", inflight[p].email,
                   Outcome("WAITLIST_FULL", waitlist, issued, <<>>))
       ELSE /\ inflight' = [inflight EXCEPT ![p].pc = "count"]
            /\ last' = Await(p, "count")
            /\ UNCHANGED waitlist
    /\ UNCHANGED <<opts, users, now, issued, usedCodes>>

\* ... awaits the count it takes the position from, makes the record and
\* calls adapter.create,
JoinCount(p) ==
    LET entry == joinData(count(waitlist, <<>>), issued, now,
                          toLowerCase(inflight[p].email))
    IN  /\ inflight[p].op = "join" /\ inflight[p].pc = "count"
        /\ issued' = IF entry.inviteCode # Null THEN entry.inviteCode ELSE issued
        /\ issued' <= MaxCodes
        /\ inflight' = [inflight EXCEPT ![p] =
                          [op |-> "join", email |-> inflight[p].email,
                           pc |-> "create", entry |-> entry]]
        /\ last' = Await(p, "count")
        /\ UNCHANGED <<opts, waitlist, users, now, usedCodes>>

\* ... and the store performs the create.  The schema declares the e-mail
\* unique: a store that enforces this refuses a second record of an e-mail
\* and the error leaves the handler as it is; a store that does not
\* (the declaration is all the plugin gives) inserts it.
JoinCreate(p) ==
    /\ inflight[p].op = "join" /\ inflight[p].pc = "create"
    /\ LET entry == inflight[p].entry
           duplicate == findByEmail(waitlist, entry.email) # 0
       IN  \E enforced \in IF duplicate THEN BOOLEAN ELSE {FALSE} :
               Finish(p, "join", inflight[p].email,
                      IF enforced
                      THEN Outcome("STORE_ERROR", waitlist, issued, <<>>)
                      ELSE joinNotify(create(waitlist, entry), issued, entry))
    /\ UNCHANGED <<opts, users, now, issued, usedCodes>>

\* A registration request arrives: the request hook runs.  If it throws the
\* request ends; otherwise the host's handler takes over, in a later step.
RegisterBefore(Paths, E) ==
    \E path \in Paths, email \in E \cup {NoEmail} :
    \E code \in RequestCodes(path) :
        LET bodyCode == IF email # NoEmail THEN code ELSE Null
            headerCode == IF email # NoEmail THEN Null ELSE code
            layerA == IF matcher(path)
                      THEN hooksBeforeHandler(waitlist, users, now, email,
                                              bodyCode, headerCode)
                      ELSE "SKIP"
            request == [path |-> path, email |-> email, bodyCode |-> bodyCode,
                        headerCode |-> headerCode, layerA |-> layerA]
        IN  /\ \E p \in Slots : inflight[p].op = "idle"
            /\ IF layerA \in {"ADMIT", "SKIP"}
               THEN /\ inflight' = [inflight EXCEPT ![FreeSlot] =
                                      [op |-> "register", request |-> request]]
                    /\ last' = Await(FreeSlot, "hooks.before")
                    /\ UNCHANGED <<opts, waitlist, users, now, issued, usedCodes>>
               ELSE /\ Registration(request, FALSE, NoUser)
                    /\ UNCHANGED inflight

\* The host's handler: with no account for the e-mail it makes the user
\* record and runs the database hooks on it, against the store as it is now.
RegisterCreate(p, E) ==
    /\ inflight[p].op = "register"
    /\ inflight' = [inflight EXCEPT ![p] = Idle]
    /\ LET request == inflight[p].request
           email == request.email
       IN  IF email = NoEmail \/ ~findUserByEmail(users, toLowerCase(email))
           THEN \E hasCtx \in BOOLEAN,
                   userEmail \in IF email # NoEmail THEN {email}
                                 ELSE {e \in E : ~findUserByEmail(users, toLowerCase(e))}
                                      \cup {NoEmail},
                   isAnonymous \in IF email # NoEmail THEN {FALSE} ELSE BOOLEAN :
                    Registration(request, TRUE,
                                 [email |-> userEmail,
                                  isAnonymous |-> isAnonymous,
                                  hasCtx |-> hasCtx])
           ELSE Registration(request, FALSE, NoUser)

\* SpecRace: joins in flight together, with and without a size limit.
\* SpecStale: registrations in flight while entries are approved and
\* rejected.
RaceConfigs == {DefaultOptions, [DefaultOptions EXCEPT !.maxWaitlistSize = 1]}

NextRace ==
    \/ JoinFindOne(RawEmails)
    \/ \E p \in Slots : JoinSize(p) \/ JoinCount(p) \/ JoinCreate(p)

SpecRace == InitWith(RaceConfigs) /\ [][NextRace]_vars

NextStale ==
    \/ JoinWaitlist(SoloEmails)
    \/ ApproveEntry(SoloEmails)
    \/ RejectEntry(SoloEmails)
    \/ RegisterBefore(ReqPaths, SoloEmails)
    \/ \E p \in Slots : RegisterCreate(p, SoloEmails)

SpecStale == InitWith({DefaultOptions}) /\ [][NextStale]_vars

\* SpecFrame: joins of two e-mails that carry referredBy and metadata, then
\* the transitions on the entry of one of them (bulkApprove by count
\* reaches the other), with the clock.
NextFrame ==
    \/ Tick
    \/ JoinWaitlistBody(PairEmails)
    \/ ApproveEntry({<<"a">>})
    \/ RejectEntry({<<"a">>})
    \/ BulkApprove({<<"a">>})
    \/ Register({<<"a">>})

SpecFrame == InitWith({DefaultOptions}) /\ [][NextFrame]_vars

\* SpecBound: invite codes required, two e-mails joining, being approved
\* and registering.
NextBound ==
    \/ JoinWaitlist(PairEmails)
    \/ ApproveEntry(PairEmails)
    \/ RegisterOn(GatePaths, PairEmails)

SpecBound ==
    InitWith({[DefaultOptions EXCEPT !.requireInviteCode = TRUE]})
      /\ [][NextBound]_vars

\* approveEntry, await by await.  An approve arrives: the handler awaits
\* findOne for the normalized e-mail, throws if there is no entry or the
\* entry is registered, and otherwise goes on with the entry it read.
ApproveFindOne(E) ==
    \E email \in E :
        LET entry == findByEmail(waitlist, toLowerCase(email))
            arg == [userRole |-> "admin", email |-> email]
        IN  /\ adminMiddleware("admin")
            /\ \E p \in Slots : inflight[p].op = "idle"
            /\ IF entry = 0
               THEN /\ last' = LastOp("approve", arg, "WAITLIST_ENTRY_NOT_FOUND", <<>>)
                    /\ UNCHANGED inflight
               ELSE IF waitlist[entry].status = "registered"
               THEN /\ last' = LastOp("approve", arg, "ALREADY_REGISTERED", <<>>)
                    /\ UNCHANGED inflight
               ELSE /\ inflight' = [inflight EXCEPT ![FreeSlot] =
                                      [op |-> "approve", email |-> email,
                                       pc |-> "update", entry |-> waitlist[entry]]]
                    /\ last' = Await(FreeSlot, "findOne")
            /\ UNCHANGED <<opts, waitlist, users, now, issued, usedCodes>>

\* ... makes the code and the dates and awaits adapter.update, which the
\* store performs on the entry of the e-mail as it is by then; the
\* callbacks and the response follow.
ApproveUpdate(p) ==
    /\ inflight[p].op = "approve"
    /\ LET email == inflight[p].email
           normalizedEmail == toLowerCase(email)
           inviteCode == randomUUID(issued)
           updated == update(waitlist, [email |-> normalizedEmail],
                             approvePatch(now, inviteCode))
           calls == <<"adapter.update", "sendInviteEmail", "onApproved">>
           out == IF sendInviteEmailThrows
                  THEN Outcome("CALLBACK_ERROR", updated, inviteCode,
                               SubSeq(calls, 1, 2))
                  ELSE IF onApprovedThrows
                  THEN Outcome("CALLBACK_ERROR", updated, inviteCode, calls)
                  ELSE Reply(Outcome("OK", updated, inviteCode, calls),
                             merge(inflight[p].entry,
                                   updated[findByEmail(updated, normalizedEmail)]))
       IN  /\ inviteCode <= MaxCodes
           /\ issued' = inviteCode
           /\ Finish(p, "approve", [userRole |-> "admin", email |-> email], out)
    /\ UNCHANGED <<opts, users, now, usedCodes>>

\* SpecApprove: approvals in flight while the e-mail registers.
NextApprove ==
    \/ JoinWaitlist(SoloEmails)
    \/ ApproveFindOne(SoloEmails)
    \/ \E p \in Slots : ApproveUpdate(p)
    \/ Register(SoloEmails)

SpecApprove == InitWith({DefaultOptions}) /\ [][NextApprove]_vars

\* bulkApprove, await by await.  A bulk approval arrives with body.emails or
\* body.count; the handler is about to await its first store call.  One
\* bulk approval is explored at a time.
BulkArrive(E) ==
    /\ adminMiddleware("admin")
    /\ \A p \in Slots : inflight[p].op = "idle"
    /\ \/ \E emails \in BulkLists(E) :
            inflight' = [inflight EXCEPT ![FreeSlot] =
                           [op |-> "bulkApprove", pc |-> "findOne",
                            arg |-> [userRole |-> "admin", emails |-> emails],
                            emails |-> emails, ids |-> <<>>, read |-> <<>>,
                            done |-> NothingDone]]
       \/ \E cnt \in 1..2 :
            inflight' = [inflight EXCEPT ![FreeSlot] =
                           [op |-> "bulkApprove", pc |-> "findMany",
                            arg |-> [userRole |-> "admin", count |-> cnt],
                            emails |-> <<>>, ids |-> <<>>, read |-> <<>>,
                            done |-> NothingDone]]
    /\ last' = Await(FreeSlot, "bulkApprove")
    /\ UNCHANGED <<opts, waitlist, users, now, issued, usedCodes>>

\* The loop over body.emails awaits findOne for the next e-mail: an e-mail
\* without an entry, or whose entry is not pending, is skipped; otherwise
\* the handler goes on to the update with the entry it read.
BulkFindOne(p) ==
    /\ inflight[p].op = "bulkApprove" /\ inflight[p].pc = "findOne"
    /\ LET emails == inflight[p].emails
           entry == findByEmail(waitlist, toLowerCase(Head(emails)))
       IN  IF entry = 0 \/ waitlist[entry].status # "pending"
           THEN IF Tail(emails) = <<>>
                THEN Finish(p, "bulkApprove", inflight[p].arg,
                            bulkReply(waitlist, issued, inflight[p].done))
                ELSE /\ inflight' = [inflight EXCEPT ![p].emails = Tail(emails)]
                     /\ last' = Await(p, "findOne")
                     /\ UNCHANGED waitlist
           ELSE /\ inflight' = [inflight EXCEPT ![p].pc = "update",
                                                ![p].read = <<waitlist[entry]>>]
                /\ last' = Await(p, "findOne")
                /\ UNCHANGED waitlist
    /\ UNCHANGED <<opts, users, now, issued, usedCodes>>

\* With body.count the handler awaits findMany for the pending entries, by
\* position, and loops over the entries it got.
BulkFindMany(p) ==
    /\ inflight[p].op = "bulkApprove" /\ inflight[p].pc = "findMany"
    /\ LET ids == findMany(waitlist, [status |-> "pending"], inflight[p].arg.count)
       IN  IF ids = <<>>
           THEN Finish(p, "bulkApprove", inflight[p].arg,
                       bulkReply(waitlist, issued, inflight[p].done))
           ELSE /\ inflight' = [inflight EXCEPT
                                  ![p].pc = "update", ![p].ids = ids,
                                  ![p].read = [k \in DOMAIN ids |-> waitlist[ids[k]]]]
                /\ last' = Await(p, "findMany")
                /\ UNCHANGED waitlist
    /\ UNCHANGED <<opts, users, now, issued, usedCodes>>

\* One iteration's adapter.update, which the store performs on the entry as
\* it is by then (found by e-mail in the loop over e-mails, by id in the
\* loop over the pending entries), the push to `approved` and the
\* callbacks; then the next iteration, or the response.
BulkUpdate(p) ==
    /\ inflight[p].op = "bulkApprove" /\ inflight[p].pc = "update"
    /\ LET emails == inflight[p].emails
           ids == inflight[p].ids
           byEmail == emails # <<>>
           inviteCode == randomUUID(issued)
           patch == approvePatch(now, inviteCode)
           updated ==
               IF byEmail
               THEN update(waitlist, [email |-> toLowerCase(Head(emails))], patch)
               ELSE [waitlist EXCEPT ![Head(ids)] = merge(@, patch)]
           step == approveStep(inflight[p].done,
                               merge(Head(inflight[p].read), patch))
           over == IF byEmail THEN Tail(emails) = <<>> ELSE Tail(ids) = <<>>
       IN  /\ inviteCode <= MaxCodes
           /\ issued' = inviteCode
           /\ IF sendInviteEmailThrows
              THEN Finish(p, "bulkApprove", inflight[p].arg,
                          Outcome("CALLBACK_ERROR", updated, inviteCode, step.calls))
              ELSE IF onApprovedThrows
              THEN Finish(p, "bulkApprove", inflight[p].arg,
                          Outcome("CALLBACK_ERROR", updated, inviteCode,
                                  notifyStep(step).calls))
              ELSE IF over
              THEN Finish(p, "bulkApprove", inflight[p].arg,
                          bulkReply(updated, inviteCode, notifyStep(step)))
              ELSE /\ inflight' =
                        [inflight EXCEPT
                           ![p].pc = IF byEmail THEN "findOne" ELSE "update",
                           ![p].emails = IF byEmail THEN Tail(emails) ELSE <<>>,
                           ![p].ids = IF byEmail THEN <<>> ELSE Tail(ids),
                           ![p].read = Tail(@),
                           ![p].done = notifyStep(step)]
                   /\ waitlist' = updated
                   /\ last' = Await(p, "update")
    /\ UNCHANGED <<opts, users, now, usedCodes>>

\* SpecBulk: bulk approvals in flight while entries are approved and
\* rejected and e-mails register.
NextBulk ==
    \/ JoinWaitlist(PairEmails)
    \/ ApproveEntry({<<"a">>})
    \/ RejectEntry({<<"a">>})
    \/ Register({<<"a">>})
    \/ BulkArrive(PairEmails)
    \/ \E p \in Slots : BulkFindOne(p) \/ BulkFindMany(p) \/ BulkUpdate(p)

SpecBulk == InitWith({DefaultOptions}) /\ [][NextBulk]_vars

\* SpecDeny: a waitlist of one entry at most, with and without invite
\* codes required: every operation, and so every way of being turned away.
DenyConfigs ==
    { [DefaultOptions EXCEPT !.maxWaitlistSize = 1, !.requireInviteCode = rq] :
        rq \in BOOLEAN }

NextDeny == Operation(PairEmails)

SpecDeny == InitWith(DenyConfigs) /\ [][NextDeny]_vars

\* ================================================================ claims
\* Vocabulary of the claims.  A step of Register is a registration attempt;
\* last' holds its request, its candidate record and what came of it, and
\* the unprimed variables are the state the attempt was decided in.
Attempt == last'.op = "register"
Req == last'.arg.request
Cand == last'.arg.user
Intercepted == Req.layerA # "SKIP"
\* The attempt is a new user's: its e-mail, if it has one, has no account.
NewUser == Req.email = NoEmail \/ ~(toLowerCase(Req.email) \in users)
Persisted == Attempt /\ last'.res = "REGISTERED"
\* The entries of a store that are approved for an e-mail.
ApprovedFor(wl, e) ==
    {i \in DOMAIN wl : wl[i].email = toLowerCase(e) /\ wl[i].status = "approved"}
EntriesOf(wl, e) == {i \in DOMAIN wl : wl[i].email = toLowerCase(e)}
ByAdmin == last'.arg.userRole \in AdminRoles

\* C1 -- Approval gate.  With enabled and without requireInviteCode, a
\* new-user attempt on an intercepted path with body e-mail e passes Layer A
\* exactly when the entry of lowercase(e) is approved, and is otherwise
\* denied with NOT_APPROVED; right after a successful approve of e, the
\* attempt passes.
C1ApprovalGateStep ==
    /\ (Attempt /\ opts.enabled /\ ~opts.requireInviteCode /\ Intercepted
          /\ Req.email # NoEmail /\ NewUser)
       => Req.layerA = IF ApprovedFor(waitlist, Req.email) # {}
                       THEN "ADMIT" ELSE "NOT_APPROVED"
    /\ (last'.op = "approve" /\ last'.res = "OK" /\ opts.enabled
          /\ ~opts.requireInviteCode)
       => \A e \in RawEmails :
            (toLowerCase(e) = toLowerCase(last'.arg.email)
               /\ ~(toLowerCase(e) \in users'))
            => hooksBeforeHandler(waitlist', users', now', e, Null, Null) = "ADMIT"

C1ApprovalGate == [][C1ApprovalGateStep]_vars

\* An attempt by a new user was admitted by Layer A on an entry that an
\* administrator approved, and one was denied before.
C1Witness ==
    /\ last.op = "register" /\ last.res = "REGISTERED"
    /\ opts.enabled /\ ~opts.requireInviteCode
    /\ last.arg.request.layerA = "ADMIT"
    /\ last.arg.request.email # NoEmail
    /\ \E i \in DOMAIN waitlist :
         /\ waitlist[i].email = toLowerCase(last.arg.request.email)
         /\ waitlist[i].approvedAt # Null

\* C2 -- Safety net, as the claim states it.  With enabled, a user record
\* that carries an e-mail and is not an anonymous record skipped under
\* skipAnonymous is persisted only if, when Layer B ran, an approved entry
\* existed for its lowercased e-mail, whatever the request was.
C2Guarded ==
    Persisted /\ opts.enabled /\ Cand.email # NoEmail
      /\ ~(opts.skipAnonymous /\ Cand.isAnonymous)

C2SafetyNetStep == C2Guarded => ApprovedFor(waitlist, Cand.email) # {}

C3Moves(allowed) ==
    \A i \in DOMAIN waitlist :
        \/ waitlist'[i].status = waitlist[i].status
        \/ <<waitlist[i].status, waitlist'[i].status>> \in allowed

C3MovesOf(op) ==
    CASE op = "approve" ->
           {<<"pending", "approved">>, <<"rejected", "approved">>}
      [] op = "bulkApprove" -> {<<"pending", "approved">>}
      [] op = "reject" ->
           {<<s, "rejected">> : s \in {"pending", "approved", "registered"}}
      [] op = "register" ->
           {<<"approved", "registered">>}
           \cup (IF opts.skipAnonymous /\ Cand.isAnonymous
                 THEN {<<"pending", "registered">>, <<"rejected", "registered">>}
                 ELSE {})
      [] OTHER -> {}

C4OneEntryPerEmail ==
    \A i, j \in DOMAIN waitlist :
        /\ waitlist[i].email = toLowerCase(waitlist[i].email)
        /\ (waitlist[i].email = waitlist[j].email => i = j)

C4JoinStep ==
    (last'.op = "join" /\ EntriesOf(waitlist, last'.arg) # {})
    => (last'.res = "EMAIL_ALREADY_IN_WAITLIST" /\ waitlist' = waitlist)

C4EmailUniqueness == []C4OneEntryPerEmail /\ [][C4JoinStep]_vars

\* A join spelled differently from the stored e-mail of a registered entry
\* was denied.
C4Witness ==
    /\ last.op = "join" /\ last.res = "EMAIL_ALREADY_IN_WAITLIST"
    /\ \E i \in DOMAIN waitlist :
         /\ waitlist[i].email = toLowerCase(last.arg)
         /\ waitlist[i].email # last.arg
         /\ waitlist[i].status = "registered"

\* C5 -- Registration completion, as the claim states it.  Whenever a record
\* with an e-mail is persisted and its lowercased e-mail has an entry, the
\* entry becomes registered, registeredAt is set and status(email) reports
\* registered, under every configuration; without an entry, and when the
\* creation is denied, the store is left as it was.
C5Completes ==
    \A i \in EntriesOf(waitlist, Cand.email) :
        /\ waitlist'[i].status = "registered"
        /\ waitlist'[i].registeredAt = now
        /\ getWaitlistStatus(waitlist', Cand.email).status = "registered"

C5Idle ==
    /\ (Attempt /\ ~Persisted) => waitlist' = waitlist
    /\ (Persisted /\ (Cand.email = NoEmail \/ EntriesOf(waitlist, Cand.email) = {}))
       => waitlist' = waitlist

C6ApproveRegisteredStep ==
    (last'.op = "approve" /\ ByAdmin
       /\ \E i \in EntriesOf(waitlist, last'.arg.email) :
            waitlist[i].status = "registered")
    => /\ last'.res = "ALREADY_REGISTERED"
       /\ waitlist' = waitlist
       /\ issued' = issued
       /\ last'.calls = <<>>

C6ApproveRegistered == [][C6ApproveRegisteredStep]_vars

\* An administrator's approve met a registered entry.
C6Witness ==
    /\ last.op = "approve" /\ last.res = "ALREADY_REGISTERED"
    /\ \E i \in DOMAIN waitlist :
         /\ waitlist[i].email = toLowerCase(last.arg.email)
         /\ waitlist[i].status = "registered"
         /\ waitlist[i].inviteCode # Null

\* The code a request presents, and the approved entries of a store that
\* hold a code and have not passed their expiry at time t.
Presented == IF Req.bodyCode # Null THEN Req.bodyCode ELSE Req.headerCode
ValidHolders(wl, c, t) ==
    {i \in DOMAIN wl : /\ wl[i].status = "approved"
                       /\ wl[i].inviteCode = c
                       /\ wl[i].inviteExpiresAt >= t}

\* C7 -- Invite-code gate.  With enabled and requireInviteCode, a new-user
\* attempt on an intercepted path is denied INVITE_CODE_REQUIRED when it
\* carries no code in body or header, INVALID_INVITE_CODE when no approved
\* entry holds the code or the holder's inviteExpiresAt is before the
\* current time, and passes Layer A otherwise.
C7InviteGateStep ==
    (Attempt /\ opts.enabled /\ opts.requireInviteCode /\ Intercepted /\ NewUser)
    => Req.layerA =
         IF Req.bodyCode = Null /\ Req.headerCode = Null
         THEN "INVITE_CODE_REQUIRED"
         ELSE IF ValidHolders(waitlist, Presented, now) = {}
         THEN "INVALID_INVITE_CODE"
         ELSE "ADMIT"

C7InviteGate == [][C7InviteGateStep]_vars

\* An attempt was denied for a code that an approved entry holds, expired.
C7Witness ==
    /\ last.op = "register" /\ last.res = "INVALID_INVITE_CODE"
    /\ opts.requireInviteCode
    /\ \E i \in DOMAIN waitlist :
         /\ waitlist[i].status = "approved"
         /\ waitlist[i].inviteCode = last.arg.request.headerCode
         /\ waitlist[i].inviteExpiresAt < now

\* C8 -- Invite expiry.  An approve at time t sets inviteExpiresAt to
\* t + inviteCodeExpiration (172800 when the option is absent), and
\* verifyInvite of a code held by an approved entry answers valid:true at
\* every time up to and including that expiry and valid:false later.
C8ApproveStep ==
    (last'.op = "approve" /\ last'.res = "OK")
    => \A i \in EntriesOf(waitlist', last'.arg.email) :
         waitlist'[i].inviteExpiresAt =
           now + (IF opts.inviteCodeExpiration = Null
                  THEN DefaultInviteCodeExpiration
                  ELSE opts.inviteCodeExpiration)

C8VerifyByDeadline ==
    last.op = "verifyInvite"
    => \A i \in DOMAIN waitlist :
         (waitlist[i].status = "approved" /\ waitlist[i].inviteCode = last.arg)
         => (last.res.valid <=> now <= waitlist[i].inviteExpiresAt)

C8InviteExpiry == [][C8ApproveStep]_vars /\ []C8VerifyByDeadline

\* verifyInvite answered valid:false for an approved entry's code, checked
\* after its expiry.
C8Witness ==
    /\ last.op = "verifyInvite" /\ ~last.res.valid
    /\ \E i \in DOMAIN waitlist :
         /\ waitlist[i].status = "approved"
         /\ waitlist[i].inviteCode = last.arg
         /\ waitlist[i].inviteExpiresAt = waitlist[i].approvedAt + opts.inviteCodeExpiration
         /\ waitlist[i].inviteExpiresAt < now

\* C9 -- verifyInvite is total and precise.  It always answers
\* {valid, email}; valid:true only when an approved entry holds the code
\* unexpired, with that entry's e-mail; otherwise {valid:false, email:null},
\* in particular when the code is stored on a rejected or registered entry.
C9VerifyInvite ==
    last.op = "verifyInvite"
    => LET holders == ValidHolders(waitlist, last.arg, now)
           stale == {i \in DOMAIN waitlist :
                       /\ waitlist[i].inviteCode = last.arg
                       /\ waitlist[i].status \in {"rejected", "registered"}}
       IN  /\ DOMAIN last.res = {"valid", "email"}
           /\ last.res.valid \in BOOLEAN
           /\ last.res.valid
              => \E i \in holders : last.res.email = waitlist[i].email
           /\ ~last.res.valid => last.res.email = NoEmail
           /\ (stale # {} /\ holders = {})
              => last.res = [valid |-> FALSE, email |-> NoEmail]

\* verifyInvite answered valid:false for a code that a rejected or
\* registered entry still stores, before the code's expiry.
C9Witness ==
    /\ last.op = "verifyInvite" /\ ~last.res.valid
    /\ \E i \in DOMAIN waitlist :
         /\ waitlist[i].inviteCode = last.arg
         /\ waitlist[i].status \in {"rejected", "registered"}
         /\ waitlist[i].inviteExpiresAt >= now

\* C10 -- Invite codes are not reusable.  With requireInviteCode, after a
\* registration that presented a code has completed (usedCodes), Layer A
\* admits no later new-user attempt that presents the same code.
C10NoReuseStep ==
    (Attempt /\ opts.enabled /\ opts.requireInviteCode /\ Intercepted /\ NewUser
       /\ Req.layerA = "ADMIT")
    => ~(Presented \in usedCodes)

C10NoReuse == [][C10NoReuseStep]_vars

\* C11 -- Invite-code invariant, as the claim states it.  Every entry whose
\* inviteCode is present has status approved, and no two entries hold the
\* same inviteCode.
C11UniqueCodes ==
    \A i, j \in DOMAIN waitlist :
        (waitlist[i].inviteCode # Null
           /\ waitlist[i].inviteCode = waitlist[j].inviteCode) => i = j

C11CodesAsStated ==
    /\ C11UniqueCodes
    /\ \A i \in DOMAIN waitlist :
         waitlist[i].inviteCode # Null => waitlist[i].status = "approved"

\* C11 -- amended: no two entries hold the same inviteCode, and every entry
\* whose inviteCode is present has been approved (approvedAt is set) and has
\* status approved, rejected or registered: reject and the completion step
\* change the status and leave the code stored.
C11CodesOfApproved ==
    /\ C11UniqueCodes
    /\ \A i \in DOMAIN waitlist :
         waitlist[i].inviteCode # Null
         => /\ waitlist[i].status \in {"approved", "rejected", "registered"}
            /\ waitlist[i].approvedAt # Null

\* Two entries hold codes, and one of them is rejected or registered.
C11Witness ==
    \E i, j \in DOMAIN waitlist :
        /\ i # j
        /\ waitlist[i].inviteCode # Null /\ waitlist[j].inviteCode # Null
        /\ waitlist[i].status \in {"rejected", "registered"}

\* C12 -- Sequential positions.  Starting from an empty store, the n-th
\* successful join creates the n-th entry with position n, the number of
\* entries existing at insertion time plus one, and reports that position.
C12SequentialPositions ==
    /\ \A i \in DOMAIN waitlist : waitlist[i].position = i
    /\ (last.op = "join" /\ last.res = "OK")
       => /\ waitlist[Len(waitlist)].email = toLowerCase(last.arg)
          /\ last.body.position = Len(waitlist)

\* A third join has succeeded, after an earlier entry was approved.
C12Witness ==
    /\ last.op = "join" /\ last.res = "OK"
    /\ Len(waitlist) = 3 /\ last.body.position = 3
    /\ \E i \in DOMAIN waitlist : waitlist[i].status # "pending"

\* C13 -- Size limit.  With maxWaitlistSize = M >= 1, a join for an e-mail
\* without an entry is denied WAITLIST_FULL exactly when the store holds at
\* least M entries of any status, and creates no entry; the number of
\* entries never exceeds M.
C13SizeLimit ==
    opts.maxWaitlistSize # Null
    => /\ Len(waitlist) <= opts.maxWaitlistSize
       /\ (last.op = "join" /\ EntriesOf(waitlist, last.arg) = {})
          => /\ last.res = "WAITLIST_FULL"
             /\ Len(waitlist) >= opts.maxWaitlistSize
       /\ (last.op = "join" /\ last.res = "WAITLIST_FULL")
          => /\ EntriesOf(waitlist, last.arg) = {}
             /\ Len(waitlist) >= opts.maxWaitlistSize

\* With M = 2 a third join was denied although no entry is pending.
C13Witness ==
    /\ opts.maxWaitlistSize = 2
    /\ last.op = "join" /\ last.res = "WAITLIST_FULL"
    /\ Len(waitlist) = 2
    /\ \A i \in DOMAIN waitlist : waitlist[i].status # "pending"

\* C14 -- Auto-approve on join.  When autoApprove is true, or a predicate
\* that holds of the lowercased e-mail, the entry a join creates is approved
\* with inviteCode, inviteExpiresAt = now + TTL and approvedAt set; when
\* autoApprove is unset or the predicate fails, it is pending with
\* inviteCode, inviteExpiresAt and approvedAt absent.
C14AutoApprove ==
    (last.op = "join" /\ last.res = "OK")
    => LET entry == waitlist[Len(waitlist)]
           auto == \/ opts.autoApprove = "always"
                   \/ /\ opts.autoApprove = "predicate"
                      /\ autoApprovePredicate(toLowerCase(last.arg))
       IN  IF auto
           THEN /\ entry.status = "approved" /\ last.body.status = "approved"
                /\ entry.inviteCode # Null
                /\ entry.inviteExpiresAt = now + opts.inviteCodeExpiration
                /\ entry.approvedAt = now
           ELSE /\ entry.status = "pending" /\ last.body.status = "pending"
                /\ entry.inviteCode = Null
                /\ entry.inviteExpiresAt = Null
                /\ entry.approvedAt = Null

\* Under a predicate, a join spelled in capitals was approved at time 1,
\* next to an entry the predicate left pending.
C14Witness ==
    /\ opts.autoApprove = "predicate"
    /\ last.op = "join" /\ last.res = "OK" /\ last.arg # toLowerCase(last.arg)
    /\ now = 1
    /\ waitlist[Len(waitlist)].status = "approved"
    /\ \E i \in DOMAIN waitlist :
         waitlist[i].status = "pending" /\ waitlist[i].inviteCode = Null

\* C15 -- Approve effect.  An administrator's approve of an existing entry
\* that is not registered sets status approved, stores a fresh invite code
\* that no entry held, sets inviteExpiresAt = now + TTL and approvedAt,
\* leaves everything else as it was and returns the updated entry; on an
\* e-mail without an entry it fails with WAITLIST_ENTRY_NOT_FOUND.
C15ApproveEffectStep ==
    (last'.op = "approve" /\ ByAdmin)
    => LET S == EntriesOf(waitlist, last'.arg.email)
       IN  /\ S = {} => (last'.res = "WAITLIST_ENTRY_NOT_FOUND"
                           /\ waitlist' = waitlist)
           /\ \A i \in S :
                waitlist[i].status # "registered"
                => /\ last'.res = "OK"
                   /\ waitlist'[i] =
                        [waitlist[i] EXCEPT
                           !.status = "approved",
                           !.inviteCode = waitlist'[i].inviteCode,
                           !.inviteExpiresAt =
                              now + (IF opts.inviteCodeExpiration = Null
                                     THEN DefaultInviteCodeExpiration
                                     ELSE opts.inviteCodeExpiration),
                           !.approvedAt = now]
                   /\ waitlist'[i].inviteCode # Null
                   /\ \A j \in DOMAIN waitlist :
                        waitlist[j].inviteCode # waitlist'[i].inviteCode
                   /\ \A j \in DOMAIN waitlist' \ {i} : waitlist'[j] = waitlist[j]
                   /\ last'.body = waitlist'[i]

C15ApproveEffect == [][C15ApproveEffectStep]_vars

\* An entry that held a code and was rejected is approved again, while
\* another entry holds a code.
C15Witness ==
    /\ last.op = "approve" /\ last.res = "OK"
    /\ \E i, j \in DOMAIN waitlist :
         /\ i # j
         /\ waitlist[i].email = toLowerCase(last.arg.email)
         /\ waitlist[i].rejectedAt # Null
         /\ waitlist[i].status = "approved"
         /\ waitlist[j].inviteCode # Null

\* C16 -- Reject is idempotent in effect.  An administrator's reject of an
\* entry that is already rejected succeeds, leaves status rejected and the
\* other fields but rejectedAt as they were, and returns the entry; on an
\* e-mail without an entry it fails with WAITLIST_ENTRY_NOT_FOUND.
C16RejectAgainStep ==
    (last'.op = "reject" /\ ByAdmin)
    => LET S == EntriesOf(waitlist, last'.arg.email)
       IN  /\ S = {} => (last'.res = "WAITLIST_ENTRY_NOT_FOUND"
                           /\ waitlist' = waitlist)
           /\ \A i \in S :
                waitlist[i].status = "rejected"
                => /\ last'.res = "OK"
                   /\ waitlist'[i] = [waitlist[i] EXCEPT !.rejectedAt = now]
                   /\ last'.body = waitlist'[i]

ApprovedByStep(i) ==
    /\ waitlist'[i] =
         [waitlist[i] EXCEPT
            !.status = "approved",
            !.inviteCode = waitlist'[i].inviteCode,
            !.inviteExpiresAt = now + (IF opts.inviteCodeExpiration = Null
                                       THEN DefaultInviteCodeExpiration
                                       ELSE opts.inviteCodeExpiration),
            !.approvedAt = now]
    /\ waitlist'[i].inviteCode # Null
    /\ \A j \in DOMAIN waitlist : waitlist[j].inviteCode # waitlist'[i].inviteCode

\* C17 -- Bulk approve by e-mails.  An administrator's bulkApprove with a
\* non-empty list approves exactly the entries of the listed e-mails that
\* are pending; listed e-mails without an entry or with another status are
\* skipped, every other entry is left as it was, and the returned count is
\* the number of entries this call approved.
C17BulkByEmailsStep ==
    (last'.op = "bulkApprove" /\ ByAdmin /\ "emails" \in DOMAIN last'.arg)
    => LET listed == {toLowerCase(last'.arg.emails[k]) :
                        k \in DOMAIN last'.arg.emails}
           hit == {i \in DOMAIN waitlist : /\ waitlist[i].email \in listed
                                           /\ waitlist[i].status = "pending"}
       IN  /\ last'.res = "OK"
           /\ DOMAIN waitlist' = DOMAIN waitlist
           /\ \A i \in hit : ApprovedByStep(i)
           /\ \A i \in DOMAIN waitlist \ hit : waitlist'[i] = waitlist[i]
           /\ last'.body.approved = Cardinality(hit)
           /\ {last'.body.entries[k] : k \in DOMAIN last'.body.entries}
                = {waitlist'[i] : i \in hit}

C17BulkByEmails == [][C17BulkByEmailsStep]_vars

\* A list of two e-mails approved one entry and skipped the other, which
\* is rejected or registered.
C17Witness ==
    /\ last.op = "bulkApprove" /\ last.res = "OK"
    /\ "emails" \in DOMAIN last.arg /\ Len(last.arg.emails) = 2
    /\ last.body.approved = 1
    /\ \E i, j \in DOMAIN waitlist :
         /\ waitlist[i].email = toLowerCase(last.arg.emails[1])
         /\ waitlist[j].email = toLowerCase(last.arg.emails[2])
         /\ waitlist[i].status \in {"rejected", "registered"}
         /\ waitlist[j] = last.body.entries[1]

\* C18 -- Bulk approve by count.  An administrator's bulkApprove with count
\* N and no e-mails approves the min(N, number of pending entries) pending
\* entries with the smallest positions, oldest first, and leaves every
\* other entry as it was: no entry left pending has a smaller position than
\* an entry this call approved.
C18BulkByCountStep ==
    (last'.op = "bulkApprove" /\ ByAdmin /\ "count" \in DOMAIN last'.arg)
    => LET pending == {i \in DOMAIN waitlist : waitlist[i].status = "pending"}
           ahead(i) == {j \in pending : waitlist[j].position < waitlist[i].position}
           hit == {i \in pending : Cardinality(ahead(i)) < last'.arg.count}
           entries == last'.body.entries
       IN  /\ last'.res = "OK"
           /\ DOMAIN waitlist' = DOMAIN waitlist
           /\ Cardinality(hit) = IF last'.arg.count <= Cardinality(pending)
                                 THEN last'.arg.count ELSE Cardinality(pending)
           /\ \A i \in hit : ApprovedByStep(i)
           /\ \A i \in DOMAIN waitlist \ hit : waitlist'[i] = waitlist[i]
           /\ \A i, j \in DOMAIN waitlist' :
                (i \in hit /\ waitlist'[j].status = "pending")
                => waitlist'[i].position < waitlist'[j].position
           /\ last'.body.approved = Cardinality(hit)
           /\ {entries[k] : k \in DOMAIN entries} = {waitlist'[i] : i \in hit}
           /\ \A k, l \in DOMAIN entries :
                k < l => entries[k].position < entries[l].position

C18BulkByCount == [][C18BulkByCountStep]_vars

\* A count of 1 approved the entry at position 2: position 1 was rejected
\* and position 3 is still pending.
C18Witness ==
    /\ last.op = "bulkApprove" /\ last.res = "OK"
    /\ "count" \in DOMAIN last.arg /\ last.arg.count = 1
    /\ last.body.approved = 1 /\ last.body.entries[1].position = 2
    /\ Len(waitlist) = 3
    /\ waitlist[1].status = "rejected"
    /\ waitlist[2].status = "approved"
    /\ waitlist[3].status = "pending"

\* The entries a bulkApprove call is to approve: the pending entries of the
\* listed e-mails, or the first `count` pending entries by position.
BulkEligible ==
    LET pending == {i \in DOMAIN waitlist : waitlist[i].status = "pending"}
    IN  IF "emails" \in DOMAIN last'.arg
        THEN {i \in pending :
                \E k \in DOMAIN last'.arg.emails :
                    waitlist[i].email = toLowerCase(last'.arg.emails[k])}
        ELSE {i \in pending :
                Cardinality({j \in pending :
                               waitlist[j].position < waitlist[i].position})
                  < last'.arg.count}

\* C19 -- Bulk partial success.  In an administrator's bulkApprove over
\* several eligible entries, a failure while one entry is processed (here
\* sendInviteEmail throws) does not abort the others: every eligible entry
\* is approved after the call, and the call returns the aggregate result
\* with the entries it approved.
C19PartialSuccessStep ==
    (last'.op = "bulkApprove" /\ ByAdmin /\ Cardinality(BulkEligible) >= 2)
    => /\ \A i \in BulkEligible : waitlist'[i].status = "approved"
       /\ last'.res = "OK"
       /\ last'.body.approved =
            Cardinality({i \in BulkEligible : waitlist'[i].status = "approved"})

C19PartialSuccess == [][C19PartialSuccessStep]_vars

\* Where an effect occurs in the last operation's log.
C20At(effect) == {k \in DOMAIN last.calls : last.calls[k] = effect}
C20Once(effect) == Cardinality(C20At(effect)) = 1
C20Before(first, second) ==
    \A k \in C20At(first), l \in C20At(second) : k < l
C20AutoJoin ==
    /\ last.op = "join" /\ last.res = "OK"
    /\ waitlist[Len(waitlist)].status = "approved"

\* C20 -- Side-effect order, as the claim states it.  An auto-approved join
\* and an approve first persist the mutation, then invoke sendInviteEmail,
\* then the notification callbacks (onJoinWaitlist, onApproved), each
\* exactly once and none before the mutation is persisted.
C20OrderAsStated ==
    /\ C20AutoJoin
       => /\ last.calls[1] = "adapter.create"
          /\ C20Once("sendInviteEmail") /\ C20Once("onJoinWaitlist")
          /\ C20Once("onApproved")
          /\ C20Before("sendInviteEmail", "onJoinWaitlist")
          /\ C20Before("sendInviteEmail", "onApproved")
    /\ (last.op = "approve" /\ last.res = "OK")
       => last.calls = <<"adapter.update", "sendInviteEmail", "onApproved">>

\* C20 -- amended: an auto-approved join persists the entry, then invokes
\* onJoinWaitlist, then sendInviteEmail, then onApproved; a join left
\* pending persists and invokes onJoinWaitlist; approve persists, then
\* invokes sendInviteEmail, then onApproved; reject persists, then invokes
\* onRejected; bulkApprove does what approve does, entry after entry.  Each
\* callback is invoked once per transition, after the write.
C20OrderInCode ==
    /\ C20AutoJoin
       => last.calls = <<"adapter.create", "onJoinWaitlist",
                         "sendInviteEmail", "onApproved">>
    /\ (last.op = "join" /\ last.res = "OK" /\ ~C20AutoJoin)
       => last.calls = <<"adapter.create", "onJoinWaitlist">>
    /\ (last.op = "approve" /\ last.res = "OK")
       => last.calls = <<"adapter.update", "sendInviteEmail", "onApproved">>
    /\ (last.op = "reject" /\ last.res = "OK")
       => last.calls = <<"adapter.update", "onRejected">>
    /\ (last.op = "bulkApprove" /\ last.res = "OK")
       => /\ Len(last.calls) = 3 * last.body.approved
          /\ \A k \in 1..last.body.approved :
               SubSeq(last.calls, 3 * k - 2, 3 * k)
                 = <<"adapter.update", "sendInviteEmail", "onApproved">>

\* A join was approved on the spot and its callbacks have run.
C20Witness ==
    /\ C20AutoJoin
    /\ Len(last.calls) = 4 /\ last.calls[3] = "sendInviteEmail"
    /\ waitlist[Len(waitlist)].inviteCode # Null

\* The store writes in the log of the operation just performed.
C21Writes ==
    {k \in DOMAIN last'.calls :
       last'.calls[k] \in {"adapter.create", "adapter.update"}}

\* C21 -- No rollback.  When join, approve, reject or bulkApprove has
\* persisted its mutation and a callback (onJoinWaitlist, sendInviteEmail,
\* onApproved, onRejected) then throws, the store holds the created or
\* updated entry: the join's entry is there, the approved entry is approved
\* with its code, the rejected entry is rejected, and bulkApprove's updates
\* up to the failure are all there.
C21NoRollbackStep ==
    (last'.op \in {"join", "approve", "reject", "bulkApprove"}
       /\ last'.res = "CALLBACK_ERROR")
    => /\ C21Writes # {}
       /\ last'.calls[Len(last'.calls)] \in Callbacks
       /\ opts[last'.calls[Len(last'.calls)]] = "throws"
       /\ last'.op = "join"
          => /\ Len(waitlist') = Len(waitlist) + 1
             /\ SubSeq(waitlist', 1, Len(waitlist)) = waitlist
             /\ waitlist'[Len(waitlist')].email = toLowerCase(last'.arg)
             /\ waitlist'[Len(waitlist')].position = Len(waitlist) + 1
             /\ waitlist'[Len(waitlist')].status =
                  IF opts.autoApprove = "always" THEN "approved" ELSE "pending"
       /\ last'.op = "approve"
          => /\ EntriesOf(waitlist, last'.arg.email) # {}
             /\ \A i \in EntriesOf(waitlist, last'.arg.email) : ApprovedByStep(i)
       /\ last'.op = "reject"
          => /\ EntriesOf(waitlist, last'.arg.email) # {}
             /\ \A i \in EntriesOf(waitlist, last'.arg.email) :
                  waitlist'[i] = [waitlist[i] EXCEPT !.status = "rejected",
                                                     !.rejectedAt = now]
       /\ last'.op = "bulkApprove"
          => /\ DOMAIN waitlist' = DOMAIN waitlist
             /\ Cardinality({i \in DOMAIN waitlist : waitlist'[i] # waitlist[i]})
                  = Cardinality(C21Writes)
             /\ \A i \in DOMAIN waitlist :
                  waitlist'[i] # waitlist[i]
                  => (waitlist[i].status = "pending" /\ ApprovedByStep(i))

C21NoRollback == [][C21NoRollbackStep]_vars

\* onRejected threw and the entry, approved before, is rejected in the store.
C21Witness ==
    /\ last.op = "reject" /\ last.res = "CALLBACK_ERROR"
    /\ opts.onRejected = "throws"
    /\ \E i \in DOMAIN waitlist :
         /\ waitlist[i].email = toLowerCase(last.arg.email)
         /\ waitlist[i].status = "rejected"
         /\ waitlist[i].approvedAt # Null

\* C22 -- Admin authorization.  approve, reject, bulkApprove, list and stats
\* by a caller whose role is absent or not in adminRoles are denied with
\* UNAUTHORIZED_ADMIN_ACTION: the store and the code counter are as before,
\* no callback is invoked and nothing is returned.
C22AdminOnlyStep ==
    (last'.op \in {"approve", "reject", "bulkApprove", "list", "stats"}
       /\ ~ByAdmin)
    => /\ last'.res = "UNAUTHORIZED_ADMIN_ACTION"
       /\ waitlist' = waitlist
       /\ issued' = issued
       /\ last'.calls = <<>>
       /\ last'.body = Null

C22AdminOnly == [][C22AdminOnlyStep]_vars

\* A caller with the role "user" asked for a bulk approval while an entry
\* was pending, and was turned away.
C22Witness ==
    /\ last.op = "bulkApprove" /\ last.arg.userRole = "user"
    /\ last.res = "UNAUTHORIZED_ADMIN_ACTION"
    /\ \E i \in DOMAIN waitlist : waitlist[i].status = "pending"

\* The entries of the store that have a status.
C28With(status) == {i \in DOMAIN waitlist : waitlist[i].status = status}

\* C28 -- Stats.  An administrator's stats returns, for pending, approved,
\* rejected and registered, the number of entries with that status, and as
\* total the number of all entries, which is the sum of the four.
C28Stats ==
    (last.op = "stats" /\ last.res = "OK")
    => /\ last.body.pending = Cardinality(C28With("pending"))
       /\ last.body.approved = Cardinality(C28With("approved"))
       /\ last.body.rejected = Cardinality(C28With("rejected"))
       /\ last.body.registered = Cardinality(C28With("registered"))
       /\ last.body.total = Len(waitlist)
       /\ last.body.total = last.body.pending + last.body.approved
                              + last.body.rejected + last.body.registered

\* The statistics of a store with a registered and a rejected entry.
C28Witness ==
    /\ last.op = "stats" /\ last.res = "OK"
    /\ last.body.total = 2
    /\ last.body.registered = 1 /\ last.body.rejected = 1

\* C23 -- Gate disabled.  With enabled = false every registration attempt
\* is admitted, whatever its e-mail, the waitlist and requireInviteCode:
\* the matcher accepts no path, so Layer A never runs, and Layer B allows
\* every record.
C23DisabledStep ==
    (Attempt /\ ~opts.enabled)
    => /\ Req.layerA = "SKIP"
       /\ last'.res = IF NewUser THEN "REGISTERED" ELSE "SIGNED_IN"

C23DisabledLayers ==
    ~opts.enabled
    => /\ \A path \in GatePaths \cup ReqPaths \cup DEFAULT_INTERCEPT_PATHS :
            ~matcher(path)
       /\ \A e \in RawEmails \cup {NoEmail}, anonymous \in BOOLEAN,
             hasCtx \in BOOLEAN :
            userCreateBefore(waitlist, e, anonymous, hasCtx)

C23Disabled == []C23DisabledLayers /\ [][C23DisabledStep]_vars

\* With the gate disabled and requireInviteCode set, a sign-up without a
\* code was registered although its entry was rejected.
C23Witness ==
    /\ ~opts.enabled /\ opts.requireInviteCode
    /\ last.op = "register" /\ last.res = "REGISTERED"
    /\ last.arg.request.path = <<"sign-up", "email">>
    /\ last.arg.request.email # NoEmail
    /\ last.arg.request.bodyCode = Null
    /\ last.arg.user.hasCtx
    /\ \E i \in DOMAIN waitlist :
         /\ waitlist[i].email = toLowerCase(last.arg.request.email)
         /\ waitlist[i].status = "rejected"

\* C24 -- Logins are never blocked.  An attempt on an intercepted path whose
\* e-mail has a user account passes Layer A, whatever the status of its
\* entry, with or without an entry, and with requireInviteCode without any
\* code; no user record is created for it.
C24LoginStep ==
    (Attempt /\ Intercepted /\ Req.email # NoEmail /\ ~NewUser)
    => /\ Req.layerA = "ADMIT"
       /\ last'.res = "SIGNED_IN"
       /\ waitlist' = waitlist /\ users' = users

C24Login == [][C24LoginStep]_vars

\* With requireInviteCode, the holder of an account signed in spelling the
\* e-mail in capitals, without a code, while the entry was rejected.
C24Witness ==
    /\ opts.enabled /\ opts.requireInviteCode
    /\ last.op = "register" /\ last.res = "SIGNED_IN"
    /\ last.arg.request.layerA = "ADMIT"
    /\ last.arg.request.email = <<"A">>
    /\ last.arg.request.bodyCode = Null
    /\ \E i \in DOMAIN waitlist :
         /\ waitlist[i].email = <<"a">>
         /\ waitlist[i].status = "rejected"

\* C25 -- skipAnonymous.  With skipAnonymous = true an anonymous sign-in
\* (a request on /sign-in/anonymous, which carries no e-mail, and whose user
\* record is flagged anonymous) meets no waitlist check and is admitted,
\* whatever the waitlist and requireInviteCode: Layer A lets it through and
\* the anonymous record is persisted.
C25SkipAnonymousStep ==
    (Attempt /\ opts.enabled /\ opts.skipAnonymous
       /\ Req.path = <<"sign-in", "anonymous">> /\ Req.email = NoEmail)
    => /\ Req.layerA = "ADMIT"
       /\ Cand.isAnonymous => last'.res = "REGISTERED"

C25SkipAnonymous == [][C25SkipAnonymousStep]_vars

\* What the two layers say, in one state, of a new user's attempt with the
\* e-mail e: Layer A on the request, Layer B on the record made from it.
C29LayersAgree(hasCtx) ==
    (opts.enabled /\ ~opts.requireInviteCode)
    => \A e \in RawEmails :
         ~findUserByEmail(users, toLowerCase(e))
         => ((hooksBeforeHandler(waitlist, users, now, e, Null, Null) = "ADMIT")
               <=> userCreateBefore(waitlist, e, FALSE, hasCtx))

C26Creating ==
    {p \in Slots : inflight[p].op = "join" /\ inflight[p].pc = "create"}

\* C26 -- Duplicate positions under concurrency.  Two joins for different
\* e-mails that read the same entry count before either inserts get the
\* same position: the store inserts each record with the position its join
\* computed from the count it read, whatever the store holds by then, and
\* the record of a join still in flight is not renumbered.
C26StalePositionStep ==
    \A p \in C26Creating :
        (inflight'[p].op = "idle" /\ last'.res \in {"OK", "CALLBACK_ERROR"})
        => /\ Len(waitlist') = Len(waitlist) + 1
           /\ waitlist'[Len(waitlist')] = inflight[p].entry
           /\ \A q \in C26Creating \ {p} : inflight'[q] = inflight[q]

C26DuplicatePositions == [][C26StalePositionStep]_vars

\* Two joins for different e-mails have both ended well and their entries
\* have the same position.
C26Witness ==
    /\ last.op = "join" /\ last.res = "OK"
    /\ \E i, j \in DOMAIN waitlist :
         /\ waitlist[i].email # waitlist[j].email
         /\ waitlist[i].position = waitlist[j].position
         /\ last.body.email = waitlist[j].email

\* C27 -- Racing joins of one e-mail.  When two joins of the same
\* normalized e-mail have both passed the existence check, the store's
\* unique constraint lets one create succeed and the other join is denied
\* with EMAIL_ALREADY_IN_WAITLIST: when the store refuses the record of a
\* join whose e-mail has an entry by now, the join ends with that error.
C27LoserStep ==
    \A p \in C26Creating :
        (inflight'[p].op = "idle"
           /\ findByEmail(waitlist, inflight[p].entry.email) # 0
           /\ waitlist' = waitlist)
        => last'.res = "EMAIL_ALREADY_IN_WAITLIST"

C27RacingJoins == [][C27LoserStep]_vars

\* C30 -- No cached decision.  Layer B decides on the store as it is when it
\* runs: a record with an e-mail, for which Layer B has the adapter, is
\* persisted exactly when its e-mail has an approved entry at that moment.
\* So when the entry was approved as Layer A admitted the attempt and has
\* been rejected since, the record is refused.
C30FreshStep ==
    (Attempt /\ last'.res \in {"BLOCKED", "REGISTERED"} /\ opts.enabled
       /\ Cand.email # NoEmail /\ Cand.hasCtx
       /\ ~(opts.skipAnonymous /\ Cand.isAnonymous))
    => (last'.res = "BLOCKED" <=> ApprovedFor(waitlist, Cand.email) = {})

C31NoEmailStep ==
    /\ (Attempt /\ opts.enabled /\ ~opts.requireInviteCode /\ Intercepted
          /\ Req.email = NoEmail)
       => /\ Req.layerA = "ADMIT"
          /\ hooksBeforeLookups(users, Req.email, Req.bodyCode, Req.headerCode)
               = <<>>
          /\ last'.res = IF userCreateBefore(waitlist, Cand.email,
                                             Cand.isAnonymous, Cand.hasCtx)
                         THEN "REGISTERED" ELSE "BLOCKED"
    /\ (Attempt /\ last'.res \in {"REGISTERED", "BLOCKED"} /\ Cand.email = NoEmail)
       => /\ last'.res = "REGISTERED"
          /\ userCreateBeforeLookups(Cand.email, Cand.isAnonymous, Cand.hasCtx)
               = <<>>
          /\ waitlist' = waitlist

C31NoEmail == [][C31NoEmailStep]_vars

\* A record without an e-mail was persisted for a request without an e-mail
\* on an intercepted path, while the waitlist held a pending entry.
C31Witness ==
    /\ last.op = "register" /\ last.res = "REGISTERED"
    /\ opts.enabled /\ ~opts.requireInviteCode
    /\ last.arg.request.layerA = "ADMIT"
    /\ last.arg.request.email = NoEmail
    /\ last.arg.user.email = NoEmail /\ last.arg.user.hasCtx
    /\ \E i \in DOMAIN waitlist : waitlist[i].status = "pending"

\* C32 -- Frame of the transitions.  A step of approve, reject, bulkApprove
\* or of a registration (its completion step, markRegistered) leaves the
\* number of entries as it was and, on every entry (the id is its place in
\* the table), position, email, createdAt, referredBy and metadata as they
\* were; and in every step an entry that exists keeps its position: it is
\* written by the join that creates the entry and by nothing after.
C32Kept == {"position", "email", "createdAt", "referredBy", "metadata"}

C32FrameStep ==
    /\ last'.op \in {"approve", "reject", "bulkApprove", "register"}
       => /\ Len(waitlist') = Len(waitlist)
          /\ \A i \in DOMAIN waitlist :
                \A f \in C32Kept : waitlist'[i][f] = waitlist[i][f]
    /\ Len(waitlist') >= Len(waitlist)
    /\ \A i \in DOMAIN waitlist : waitlist'[i].position = waitlist[i].position
    /\ Len(waitlist') > Len(waitlist) => last'.op = "join"

C32Frame == [][C32FrameStep]_vars

\* An entry that joined with a referrer and metadata, at an earlier time,
\* has been approved and registered, next to a second entry.
C32Witness ==
    /\ last.op = "register" /\ last.res = "REGISTERED"
    /\ Len(waitlist) = 2
    /\ \E i \in DOMAIN waitlist :
         /\ waitlist[i].status = "registered"
         /\ waitlist[i].referredBy # NoReferrer
         /\ waitlist[i].metadata # NoMetadata
         /\ waitlist[i].createdAt < waitlist[i].registeredAt
         /\ waitlist[i].approvedAt # Null

\* C33 -- as the claim states it: once an entry's approvedAt, rejectedAt or
\* registeredAt is set, no step changes it.
C33Stamps == {"approvedAt", "rejectedAt", "registeredAt"}

C33SetOnce ==
    [][\A i \in DOMAIN waitlist : \A f \in C33Stamps :
          waitlist[i][f] # Null => waitlist'[i][f] = waitlist[i][f]]_vars

\* C33 -- amended: each of the three is written only by its own operation
\* (approvedAt by approve and bulkApprove, rejectedAt by reject, registeredAt
\* by the completion step of a registration), to the time of the operation,
\* and is never cleared; but each is written every time: a successful
\* approve, a reject, and a completion step that finds the entry overwrite
\* the value an earlier one left.
C33Writer(f) ==
    CASE f = "approvedAt" -> {"approve", "bulkApprove"}
      [] f = "rejectedAt" -> {"reject"}
      [] f = "registeredAt" -> {"register"}

C33Done == last'.op \in {"approve", "reject"}
             /\ last'.res \in {"OK", "CALLBACK_ERROR"}

C33StampStep ==
    /\ \A i \in DOMAIN waitlist : \A f \in C33Stamps :
         waitlist'[i][f] # waitlist[i][f]
           => /\ last'.op \in C33Writer(f)
              /\ waitlist'[i][f] = now
    /\ C33Done
       => \A i \in DOMAIN waitlist :
            waitlist[i].email = toLowerCase(last'.arg.email)
              => waitlist'[i][IF last'.op = "approve" THEN "approvedAt"
                              ELSE "rejectedAt"] = now

C33Completion ==
    \A i \in DOMAIN waitlist :
        opts.enabled
          => userCreateAfter(waitlist, now, waitlist[i].email, TRUE)[i].registeredAt
               = now

C33StampedEachTime == []C33Completion /\ [][C33StampStep]_vars

\* An entry approved at an earlier time has just been approved again.
C33Witness ==
    /\ last.op = "approve" /\ last.res = "OK"
    /\ now > 0
    /\ \E i \in DOMAIN waitlist :
         /\ waitlist[i].email = toLowerCase(last.arg.email)
         /\ waitlist[i].approvedAt = now
         /\ waitlist[i].createdAt < now
         /\ waitlist[i].inviteCode = 2

\* C34 -- Invite codes are bound to their e-mail: with requireInviteCode,
\* whenever Layer A admits a new-user attempt whose body carries e-mail e,
\* the code the attempt presented is the inviteCode of the entry whose
\* e-mail is lowercase(e).
C34BoundStep ==
    (Attempt /\ opts.enabled /\ opts.requireInviteCode /\ Intercepted
       /\ Req.email # NoEmail /\ NewUser /\ Req.layerA = "ADMIT")
    => \E i \in EntriesOf(waitlist, Req.email) :
          waitlist[i].inviteCode = requestInviteCode(Req.bodyCode, Req.headerCode)

C34BoundToEmail == [][C34BoundStep]_vars

\* C35 -- In every interleaving of approve(e) with the completion step of a
\* registration for e, no step sets an entry that is registered back to
\* approved.
C35StaysRegisteredStep ==
    \A i \in DOMAIN waitlist :
        waitlist[i].status = "registered" => waitlist'[i].status # "approved"

C35ApproveAtomic == [][C35StaysRegisteredStep]_vars

\* C36 -- In every interleaving of bulkApprove with reject or with the
\* completion step of a registration, an update of bulkApprove changes only
\* an entry that is pending when the store performs the update: it does not
\* change an entry that has become rejected or registered since bulkApprove
\* read it.
C36BulkUpdates ==
    \E p \in Slots :
        /\ inflight[p].op = "bulkApprove" /\ inflight[p].pc = "update"
        /\ inflight'[p] # inflight[p]

C36OnlyPendingStep ==
    C36BulkUpdates
      => \A i \in DOMAIN waitlist :
            waitlist'[i] # waitlist[i]
              => ~(waitlist[i].status \in {"rejected", "registered"})

C36BulkOnlyPending == [][C36OnlyPendingStep]_vars

\* C37 -- With maxWaitlistSize = M, in every interleaving of joins for
\* distinct e-mails, the waitlist never holds more than M entries and no
\* entry has a position greater than M.
C37SizeUnderRace ==
    (/\ opts.maxWaitlistSize # Null
     /\ \A i, j \in DOMAIN waitlist :
           waitlist[i].email = waitlist[j].email => i = j)
    => /\ Len(waitlist) <= opts.maxWaitlistSize
       /\ \A i \in DOMAIN waitlist : waitlist[i].position <= opts.maxWaitlistSize

\* C38 -- At most one invite code is valid per entry at any time.  In every
\* state, of the codes issued so far at most one is accepted by verifyInvite
\* for a given entry's e-mail; and when an approve succeeds on an entry that
\* already holds a code c1, the entry gets another code c2, after which
\* verifyInvite and Layer A (with requireInviteCode, for a new user) refuse
\* c1 and accept c2.
C38AcceptedFor(i) ==
    {c \in 1..issued :
        LET v == verifyInviteCode(waitlist, now, c)
        IN  v.valid /\ v.email = waitlist[i].email}

C38AtMostOne == \A i \in DOMAIN waitlist : Cardinality(C38AcceptedFor(i)) <= 1

C38NewUsers == {e \in RawEmails \cup {NoEmail} :
                   e = NoEmail \/ ~findUserByEmail(users', toLowerCase(e))}

C38ReplacedStep ==
    (last'.op = "approve" /\ last'.res \in {"OK", "CALLBACK_ERROR"})
    => \A i \in DOMAIN waitlist :
          (waitlist[i].email = toLowerCase(last'.arg.email)
             /\ waitlist[i].inviteCode # Null)
          => LET c1 == waitlist[i].inviteCode
                 c2 == waitlist'[i].inviteCode
             IN  /\ c2 # Null /\ c2 # c1
                 /\ ~verifyInviteCode(waitlist', now', c1).valid
                 /\ verifyInviteCode(waitlist', now', c2)
                      = [valid |-> TRUE, email |-> waitlist[i].email]
                 /\ opts.requireInviteCode
                    => \A e \in C38NewUsers :
                         /\ hooksBeforeHandler(waitlist', users', now', e, c1, Null)
                              = "INVALID_INVITE_CODE"
                         /\ hooksBeforeHandler(waitlist', users', now', e, c2, Null)
                              = "ADMIT"

C38OneValidCode == []C38AtMostOne /\ [][C38ReplacedStep]_vars

\* An entry has just been approved for the second time: it holds the
\* second code issued, which verifyInvite accepts, and the first is refused.
C38Witness ==
    /\ last.op = "approve" /\ last.res = "OK"
    /\ opts.requireInviteCode
    /\ Len(waitlist) = 1 /\ waitlist[1].inviteCode = 2
    /\ verifyInviteCode(waitlist, now, 2).valid
    /\ ~verifyInviteCode(waitlist, now, 1).valid

\* C39 -- verifyInvite and Layer A's invite check are the same decision.
\* With requireInviteCode, in every state and for every code, made up or
\* issued, verifyInvite answers valid exactly when the request hook admits
\* a new user's attempt that presents the code, in the body or in the
\* x-invite-code header, with or without an e-mail; and every attempt of a
\* new user on an intercepted path that presented a code was admitted by
\* Layer A exactly when verifyInvite held the code valid at that moment.
C39Agree ==
    opts.requireInviteCode
    => \A c \in CodeInputs :
       \A e \in {x \in RawEmails \cup {NoEmail} :
                    x = NoEmail \/ ~findUserByEmail(users, toLowerCase(x))} :
          /\ verifyInviteCode(waitlist, now, c).valid
               <=> (hooksBeforeHandler(waitlist, users, now, e, c, Null) = "ADMIT")
          /\ verifyInviteCode(waitlist, now, c).valid
               <=> (hooksBeforeHandler(waitlist, users, now, e, Null, c) = "ADMIT")

C39AttemptStep ==
    (Attempt /\ opts.enabled /\ opts.requireInviteCode /\ Intercepted /\ NewUser
       /\ requestInviteCode(Req.bodyCode, Req.headerCode) # Null)
    => ((Req.layerA = "ADMIT")
          <=> verifyInviteCode(waitlist, now,
                               requestInviteCode(Req.bodyCode, Req.headerCode)).valid)

C39SameDecision == []C39Agree /\ [][C39AttemptStep]_vars

\* verifyInvite has just held a code valid which Layer A admits, at a later
\* time than the start, while another issued code is refused by both.
C39Witness ==
    /\ last.op = "verifyInvite" /\ last.res.valid
    /\ opts.requireInviteCode /\ now > 0
    /\ hooksBeforeHandler(waitlist, users, now, NoEmail, Null, last.arg) = "ADMIT"
    /\ \E c \in 1..issued :
         /\ ~verifyInviteCode(waitlist, now, c).valid
         /\ hooksBeforeHandler(waitlist, users, now, NoEmail, Null, c)
              = "INVALID_INVITE_CODE"

\* C40 -- Denied operations have no effect.  A join denied with
\* EMAIL_ALREADY_IN_WAITLIST or WAITLIST_FULL, an approve or a reject denied
\* with WAITLIST_ENTRY_NOT_FOUND, a status lookup answered
\* WAITLIST_ENTRY_NOT_FOUND and a registration attempt turned away by Layer A
\* or by Layer B leave the waitlist as it was and invoke no callback; and a
\* join for an e-mail that has an entry is denied
\* EMAIL_ALREADY_IN_WAITLIST even when the waitlist is full.
C40Denied ==
    \/ /\ last'.op = "join"
       /\ last'.res \in {"EMAIL_ALREADY_IN_WAITLIST", "WAITLIST_FULL"}
    \/ /\ last'.op \in {"approve", "reject"}
       /\ last'.res = "WAITLIST_ENTRY_NOT_FOUND"
    \/ /\ last'.op = "status"
       /\ last'.res.res = "WAITLIST_ENTRY_NOT_FOUND"
    \/ /\ last'.op = "register"
       /\ last'.res \in {"NOT_APPROVED", "INVITE_CODE_REQUIRED",
                         "INVALID_INVITE_CODE", "BLOCKED"}

C40NoEffectStep ==
    /\ C40Denied => /\ waitlist' = waitlist
                    /\ last'.calls = <<>>
    /\ (last'.op = "join" /\ EntriesOf(waitlist, last'.arg) # {})
       => last'.res = "EMAIL_ALREADY_IN_WAITLIST"
    /\ (last'.op = "register" /\ last'.res = "BLOCKED") => users' = users

C40NoEffect == [][C40NoEffectStep]_vars

\* A join for the e-mail that fills the waitlist has just been denied.
C40Witness ==
    /\ last.op = "join" /\ last.res = "EMAIL_ALREADY_IN_WAITLIST"
    /\ opts.maxWaitlistSize # Null
    /\ Len(waitlist) >= opts.maxWaitlistSize
    /\ waitlist[1].email = toLowerCase(last.arg)

====
